---- MODULE Spec2Model ----
(***************************************************************************)
(* A model of novelkit's acquisition-and-processing core:                  *)
(*   - ChapterStorage   (infra/persistence/chapter_storage.py)             *)
(*   - DownloadMixin    (plugins/mixins/download.py)                       *)
(*   - ProcessMixin     (plugins/mixins/process.py)                        *)
(* Each component has its own specification over the shared variables:     *)
(*   SpecStore  the operations of one ChapterStorage instance              *)
(*   SpecRetry  one call of get_chapter                                    *)
(*   SpecDl     one call of download_book (asyncio tasks, one step per     *)
(*              stretch of code between two suspension points)             *)
(*   SpecProc   a sequence of process_book runs                            *)
(***************************************************************************)
EXTENDS Integers, Sequences, FiniteSets, TLC

\* ------------------------------------------------------------------ bounds

\* Chapter ids of the model.
Ids == {"a", "b", "c"}

\* Chapter contents: two versions of a chapter's text.
Contents == {1, 2}

\* Longest batch handed to upsert_chapters / delete_chapters in SpecStore.
MaxBatch == 2

\* Largest configured retry_times in SpecRetry.
MaxRetry == 3

\* Largest configured workers in SpecDl.
MaxWorkers == 2

\* maxsize of save_q in SpecDl (the source's queue holds 10 items; the model's
\* books have at most three chapters).
MaxQueue == 2

\* process.py: PROCESS_BATCH, the number of processed chapters that makes a
\* stage flush its batches inside the loop.
PROCESS_BATCH == 200

\* ------------------------------------------------------------------ values

EmptyMap == [i \in {} |-> 0]

\* A ChapterDict: id, content and extra["next_cid"] ("" when absent).
\* title and the rest of extra travel with content and are not modelled apart.
ChapterDict(id, content, next) == [id |-> id, content |-> content, next |-> next]

\* A row of table chapters.
Row(chap, need) == [content |-> chap.content, next |-> chap.next, need_refetch |-> need]

Remove(f, ks) == [i \in (DOMAIN f) \ ks |-> f[i]]

Put(f, k, v) == (k :> v) @@ f

RECURSIVE PutRows(_, _, _, _)
\* rows after the first n records of data were upserted (ON CONFLICT DO UPDATE).
PutRows(rows, data, need, n) ==
    IF n = 0 THEN rows
    ELSE Put(PutRows(rows, data, need, n - 1), data[n].id, Row(data[n], need))

RECURSIVE PutFlags(_, _, _, _)
\* _refetch_flags after the first n chapters of data were flagged.
PutFlags(flags, data, need, n) ==
    IF n = 0 THEN flags
    ELSE Put(PutFlags(flags, data, need, n - 1), data[n].id, need)

\* ---------------------------------------------------------- ChapterStorage
\* A ChapterStorage instance with its SQLite file:
\*   conn   _conn is not None
\*   flags  _refetch_flags, id -> need_refetch
\*   rows   the rows the connection sees (committed, and written in the open
\*          transaction)
\*   disk   the committed rows of the file
\* Operations return [st |-> the instance afterwards, raised, value].

NewStorage(disk) == [conn |-> FALSE, flags |-> EmptyMap, rows |-> disk, disk |-> disk]

Result(st, raised, value) == [st |-> st, raised |-> raised, value |-> value]

\* _load_existing_keys
LoadExistingKeys(st) ==
    [st EXCEPT !.flags = [i \in DOMAIN st.rows |-> st.rows[i].need_refetch]]

connect(st) ==
    IF st.conn THEN st
    ELSE LoadExistingKeys([st EXCEPT !.conn = TRUE, !.rows = st.disk])

\* close: the connection is closed (an open transaction is rolled back) and the
\* flags are cleared.
close(st) ==
    IF ~st.conn THEN st
    ELSE [st EXCEPT !.conn = FALSE, !.flags = EmptyMap, !.rows = st.disk]

exists(st, id) == id \in DOMAIN st.flags

need_refetch(st, id) == IF id \in DOMAIN st.flags THEN st.flags[id] ELSE TRUE

existing_ids(st) == DOMAIN st.flags

clean_ids(st) == {i \in DOMAIN st.flags : st.flags[i] = FALSE}

dirty_ids(st) == {i \in DOMAIN st.flags : st.flags[i] = TRUE}

\* The faults of a write: where the call raises.
\*   "ok"      nothing raises
\*   "build"   building a record raises (json.dumps, a missing key), at record `at`
\*   "exec"    execute / executemany raises, at record `at`; the records before
\*             it stay written in the open transaction
Fault(kind, at) == [kind |-> kind, at |-> at]

NoFault == Fault("ok", 0)

\* An upsert_chapter that inserts and never updates: the row of an id already
\* stored stays as it was.
UpsertChapterInsertOnly(st, data, need, fault) ==
    IF fault.kind = "build" THEN Result(st, TRUE, "error")
    ELSE IF ~st.conn THEN Result(st, TRUE, "RuntimeError")
    ELSE IF fault.kind = "exec" THEN Result(st, TRUE, "error")
    ELSE LET rows == IF data.id \in DOMAIN st.rows THEN st.rows
                     ELSE Put(st.rows, data.id, Row(data, need)) IN
         Result([st EXCEPT !.rows = rows, !.disk = rows,
                           !.flags = Put(st.flags, data.id, need)],
                FALSE, "none")

\* upsert_chapter: the record is built, then self.conn.execute, commit, and last
\* the flag.
upsert_chapter(st, data, need, fault) ==
    IF fault.kind = "build" THEN Result(st, TRUE, "error")
    ELSE IF ~st.conn THEN Result(st, TRUE, "RuntimeError")
    ELSE IF fault.kind = "exec" THEN Result(st, TRUE, "error")
    ELSE LET rows == Put(st.rows, data.id, Row(data, need)) IN
         Result([st EXCEPT !.rows = rows, !.disk = rows,
                           !.flags = Put(st.flags, data.id, need)],
                FALSE, "none")

\* upsert_chapters as the source orders it: the loop builds each record and sets
\* its flag, then executemany, then commit.
UpsertChaptersFlagsFirst(st, data, need, fault) ==
    IF Len(data) = 0 THEN Result(st, FALSE, "none")
    ELSE IF fault.kind = "build"
    THEN Result([st EXCEPT !.flags = PutFlags(st.flags, data, need, fault.at - 1)],
                TRUE, "error")
    ELSE LET flagged == [st EXCEPT !.flags = PutFlags(st.flags, data, need, Len(data))] IN
         IF ~st.conn THEN Result(flagged, TRUE, "RuntimeError")
         ELSE IF fault.kind = "exec"
         THEN Result([flagged EXCEPT !.rows = PutRows(st.rows, data, need, fault.at - 1)],
                     TRUE, "error")
         ELSE LET rows == PutRows(st.rows, data, need, Len(data)) IN
              Result([flagged EXCEPT !.rows = rows, !.disk = rows], FALSE, "none")

upsert_chapters(st, data, need, fault) == UpsertChaptersFlagsFirst(st, data, need, fault)

get_chapter(st, id) ==
    IF ~st.conn THEN Result(st, TRUE, "RuntimeError")
    ELSE IF id \in DOMAIN st.rows
    THEN Result(st, FALSE, ChapterDict(id, st.rows[id].content, st.rows[id].next))
    ELSE Result(st, FALSE, "None")

\* A get_chapters without dict.fromkeys: only the rows found get a key.
GetChaptersFoundOnly(st, ids) ==
    IF Len(ids) = 0 THEN Result(st, FALSE, EmptyMap)
    ELSE IF ~st.conn THEN Result(st, TRUE, "RuntimeError")
    ELSE Result(st, FALSE,
                [i \in {ids[k] : k \in 1..Len(ids)} \cap DOMAIN st.rows |->
                    ChapterDict(i, st.rows[i].content, st.rows[i].next)])

\* get_chapters: dict.fromkeys(chap_ids), then one entry per row found.
get_chapters(st, ids) ==
    IF Len(ids) = 0 THEN Result(st, FALSE, EmptyMap)
    ELSE IF ~st.conn THEN Result(st, TRUE, "RuntimeError")
    ELSE Result(st, FALSE,
                [i \in {ids[k] : k \in 1..Len(ids)} |->
                    IF i \in DOMAIN st.rows
                    THEN ChapterDict(i, st.rows[i].content, st.rows[i].next)
                    ELSE "None"])

\* delete_chapter: execute, commit, pop the flag, return rowcount > 0.
delete_chapter(st, id, fault) ==
    IF ~st.conn THEN Result(st, TRUE, "RuntimeError")
    ELSE IF fault.kind = "exec" THEN Result(st, TRUE, "error")
    ELSE LET rows == Remove(st.rows, {id}) IN
         Result([st EXCEPT !.rows = rows, !.disk = rows,
                           !.flags = Remove(st.flags, {id})],
                FALSE, id \in DOMAIN st.rows)

\* A delete_chapters that counts the ids asked for instead of the rows deleted.
DeleteChaptersCountsAsked(st, ids, fault) ==
    IF Len(ids) = 0 THEN Result(st, FALSE, 0)
    ELSE LET unique_ids == {ids[k] : k \in 1..Len(ids)} IN
         IF ~st.conn THEN Result(st, TRUE, "RuntimeError")
         ELSE IF fault.kind = "exec" THEN Result(st, TRUE, "error")
         ELSE LET rows == Remove(st.rows, unique_ids) IN
              Result([st EXCEPT !.rows = rows, !.disk = rows,
                                !.flags = Remove(st.flags, unique_ids)],
                     FALSE, Len(ids))

\* delete_chapters: one DELETE over set(chap_ids), commit, pop the flags, return
\* rowcount.
delete_chapters(st, ids, fault) ==
    IF Len(ids) = 0 THEN Result(st, FALSE, 0)
    ELSE LET unique_ids == {ids[k] : k \in 1..Len(ids)} IN
         IF ~st.conn THEN Result(st, TRUE, "RuntimeError")
         ELSE IF fault.kind = "exec" THEN Result(st, TRUE, "error")
         ELSE LET rows == Remove(st.rows, unique_ids) IN
              Result([st EXCEPT !.rows = rows, !.disk = rows,
                                !.flags = Remove(st.flags, unique_ids)],
                     FALSE, Cardinality(unique_ids \cap DOMAIN st.rows))

\* -------------------------------------------------------------- get_chapter
\* What one attempt (fetch_chapter_content, then parse_chapter_content) ends in:
\*   "ok"          a chapter is returned
\*   "EmptyContent", "RestrictedContent"   the classified errors
\*   "error"       any other Exception
Outcomes == {"ok", "EmptyContent", "RestrictedContent", "error"}

IsContentErrorEmptyOnly(outcome) == outcome = "EmptyContent"

\* except EmptyContent / except RestrictedContent: return None
IsContentError(outcome) == outcome \in {"EmptyContent", "RestrictedContent"}

InRangeOneMore(attempt, retry_times) == attempt < retry_times + 2

\* for attempt in range(self._retry_times + 1)
InRange(attempt, retry_times) == attempt < retry_times + 1

\* if attempt < self._retry_times: sleep, else log the failure
SleepsBeforeRetry(attempt, retry_times) == attempt < retry_times

RECURSIVE Pow2(_)
Pow2(n) == IF n = 0 THEN 1 ELSE 2 * Pow2(n - 1)

\* self._backoff_factor * (2**attempt)
BackoffInterval(backoff_factor, attempt) == backoff_factor * Pow2(attempt)

\* The state of one get_chapter call:
\*   pc       "try" (an attempt is awaited), "backoff" (in _sleep), "returned"
\*   result   "pending", "chapter" or "None"
\*   calls    the calls of fetch_chapter_content so far
\*   log      the outcome of each attempt, sleeps the interval of each backoff
GcEnter(g, attempt) ==
    IF InRange(attempt, g.retry_times)
    THEN [g EXCEPT !.attempt = attempt, !.pc = "try"]
    ELSE [g EXCEPT !.pc = "returned", !.result = "None"]

GcCall(chapter_id, retry_times, backoff_factor) ==
    GcEnter([chapter_id |-> chapter_id, retry_times |-> retry_times,
             backoff_factor |-> backoff_factor, attempt |-> 0, calls |-> 0,
             pc |-> "start", result |-> "pending", log |-> <<>>, sleeps |-> <<>>], 0)

\* One attempt of the loop body, ending in outcome.
GcAttempt(g, outcome) ==
    LET h == [g EXCEPT !.calls = g.calls + 1, !.log = Append(g.log, outcome)] IN
    IF outcome = "ok" THEN [h EXCEPT !.pc = "returned", !.result = "chapter"]
    ELSE IF IsContentError(outcome) THEN [h EXCEPT !.pc = "returned", !.result = "None"]
    ELSE IF SleepsBeforeRetry(g.attempt, g.retry_times)
    THEN [h EXCEPT !.pc = "backoff",
                   !.sleeps = Append(g.sleeps, BackoffInterval(g.backoff_factor, g.attempt))]
    ELSE GcEnter(h, g.attempt + 1)

\* The backoff sleep is over: the next iteration of the loop.
GcWake(g) == GcEnter(g, g.attempt + 1)

\* ------------------------------------------------------------ process_book
\* The stage names of the model, and the processors lists process_book is
\* called with (names only: each stage's options are read when it runs).
Stages == {"s1", "s2"}

StageLists == {<<"s1">>, <<"s2">>, <<"s1", "s2">>}

\* ProcessorConfig.options of the model: three option maps {"level": n}. The
\* last two differ and have the same config hash.
Options == {[level |-> 1], [level |-> 7519240], [level |-> 9406678]}

NoOptions == [level |-> 0]

\* The options each stage is configured with: s1 with any of them, s2 always
\* with the same.
StageOptions(name) == IF name = "s1" THEN Options ELSE {[level |-> 1]}

\* sha256(json.dumps(options, sort_keys=True, separators=(",", ":"))).hexdigest()[:12]
\* of each option map of the model, as the source computes it.
HashConfig(options) ==
    CASE options.level = 1 -> "16a5197c426c"
      [] options.level = 7519240 -> "9ce636aa7035"
      [] options.level = 9406678 -> "9ce636aa7035"

_pc_hash_config(options) == HashConfig(options)

ProcessorConfig(name, overwrite, options) ==
    [name |-> name, overwrite |-> overwrite, options |-> options]

\* The chapters of the book (the ids _extract_chapter_ids returns from the raw
\* book info), and the contents of a raw chapter: a sequence holding its version.
ProcPlan == <<"a">>

ProcIds == {ProcPlan[k] : k \in 1..Len(ProcPlan)}

RawContent(version) == <<[stage |-> "raw", level |-> version]>>

\* processor.process_chapter(src) of the stage built with options: the result
\* depends on the stage, on its options and on the source chapter.
process_chapter(stage, options, src) ==
    ChapterDict(src.id, Append(src.content, [stage |-> stage, level |-> options.level]),
                src.next)

\* PipelineMeta: pipeline, and executed: stage -> [depends_on, config_hash]
\* (processed_at, a timestamp, is left out).
EmptyMeta == [pipeline |-> <<>>, executed |-> EmptyMap]

\* _pc_is_incremental without the test of the output file.
PcIsIncrementalNoFile(meta, files, pconf, completed_stages) ==
    IF pconf.overwrite THEN FALSE
    ELSE IF pconf.name \notin DOMAIN meta.executed THEN FALSE
    ELSE IF meta.executed[pconf.name].config_hash # HashConfig(pconf.options) THEN FALSE
    ELSE meta.executed[pconf.name].depends_on = completed_stages

\* _pc_is_incremental; files: the stages whose chapter.<stage>.sqlite exists.
_pc_is_incremental(meta, files, pconf, completed_stages) ==
    IF pconf.overwrite THEN FALSE
    ELSE IF pconf.name \notin DOMAIN meta.executed THEN FALSE
    ELSE IF pconf.name \notin files THEN FALSE
    ELSE IF meta.executed[pconf.name].config_hash # _pc_hash_config(pconf.options) THEN FALSE
    ELSE meta.executed[pconf.name].depends_on = completed_stages

\* _pc_record_execution recording an empty dependency chain.
PcRecordExecutionNoDeps(meta, pconf, completed_stages) ==
    [meta EXCEPT !.executed =
        Put(meta.executed, pconf.name,
            [depends_on |-> <<>>,
             config_hash |-> HashConfig(pconf.options)])]

\* process_book going on to the next stage without _pc_record_execution.
PcRecordExecutionSkipped(meta, pconf, completed_stages) == meta

_pc_record_execution(meta, pconf, completed_stages) ==
    [meta EXCEPT !.executed =
        Put(meta.executed, pconf.name,
            [depends_on |-> completed_stages,
             config_hash |-> _pc_hash_config(pconf.options)])]

\* A _flush that writes both batches as clean.
StageFlushAllClean(outstore, batch_need, batch_ok) ==
    LET o1 == IF Len(batch_need) > 0
              THEN upsert_chapters(outstore, batch_need, FALSE, NoFault).st
              ELSE outstore
    IN IF Len(batch_ok) > 0 THEN upsert_chapters(o1, batch_ok, FALSE, NoFault).st ELSE o1

\* _flush: batch_need, then batch_ok.
StageFlush(outstore, batch_need, batch_ok) ==
    LET o1 == IF Len(batch_need) > 0
              THEN upsert_chapters(outstore, batch_need, TRUE, NoFault).st
              ELSE outstore
    IN IF Len(batch_ok) > 0 THEN upsert_chapters(o1, batch_ok, FALSE, NoFault).st ELSE o1

\* A stage run that takes no requested chapter as missing.
StageMissingInputNone(chap_set, instore) == {}

\* missing_input = chap_set - in_exists
StageMissingInput(chap_set, instore) == chap_set \ existing_ids(instore)

\* A reusable set made of the chapters flagged need_refetch upstream.
StageReusableDirtyUpstream(incremental, instore, outstore, chap_set) ==
    IF incremental
    THEN (existing_ids(outstore) \cap dirty_ids(instore)) \cap chap_set
    ELSE {}

\* The reusable set of a stage run.
StageReusable(incremental, instore, outstore, chap_set) ==
    IF incremental
    THEN (existing_ids(outstore) \cap clean_ids(instore)) \cap chap_set
    ELSE {}

RECURSIVE StageLoop(_, _, _, _, _, _, _, _)
\* for cid in to_process_list, from its k-th element on, and the last _flush;
\* fail_at: the element at which process_chapter raises (0: none).
\* Gives [out: the output store, raised, transformed: the ids process_chapter
\* was called for and returned].
StageLoop(list, k, pconf, fail_at, instore, outstore, batch_need, batch_ok) ==
    IF k > Len(list)
    THEN [out |-> StageFlush(outstore, batch_need, batch_ok), raised |-> FALSE,
          transformed |-> {}]
    ELSE IF fail_at = k
    THEN [out |-> outstore, raised |-> TRUE, transformed |-> {}]
    ELSE LET cid == list[k]
             src == get_chapters(instore, list).value[cid]
         IN IF cid \notin DOMAIN instore.rows  \* in_map.get(cid) is None
            THEN StageLoop(list, k + 1, pconf, fail_at, instore, outstore,
                           batch_need, batch_ok)
            ELSE LET processed == process_chapter(pconf.name, pconf.options, src)
                     need == need_refetch(instore, cid)
                     bn == IF need THEN Append(batch_need, processed) ELSE batch_need
                     bo == IF need THEN batch_ok ELSE Append(batch_ok, processed)
                     full == Len(bn) + Len(bo) >= PROCESS_BATCH
                     rest == StageLoop(list, k + 1, pconf, fail_at, instore,
                                       IF full THEN StageFlush(outstore, bn, bo)
                                       ELSE outstore,
                                       IF full THEN <<>> ELSE bn,
                                       IF full THEN <<>> ELSE bo)
                 IN [rest EXCEPT !.transformed = rest.transformed \cup {cid}]

\* The orders list(to_process) may have: every order of the set.
Orders(S) == {f \in [1..Cardinality(S) -> S] : \A i, j \in 1..Cardinality(S) : i # j => f[i] # f[j]}

\* The calls of ui.on_stage_progress of a stage run, as their done values:
\* one for the reusable and missing chapters when there are any, then one per
\* element of to_process_list the loop got through (all of them when
\* fail_at = 0, those before the failing one otherwise).
StageProgress(ui, done, n, fail_at) ==
    LET through == IF fail_at = 0 THEN n ELSE fail_at - 1 IN
    IF ~ui THEN <<>>
    ELSE (IF done > 0 THEN <<done>> ELSE <<>>) \o [k \in 1..through |-> done + k]

\* done = len(reusable) + len(missing_input)
StageDone(reusable, missing_input) == Cardinality(reusable) + Cardinality(missing_input)

\* _pc_run_stage from the with block on, for the chapter list chap_ids, on the
\* rows in_rows and out_rows of the input and output files; list is the order
\* of list(to_process). Gives what the run did: its sets, the ids it read from
\* the input store, the ids it transformed, its progress calls with their
\* total, whether it raised, and the rows of the output file afterwards.
_pc_run_stage(chap_ids, pconf, incremental, in_rows, out_rows, ui, list, fail_at) ==
    LET chap_set == {chap_ids[k] : k \in 1..Len(chap_ids)}
        instore == connect(NewStorage(in_rows))
        outstore == connect(NewStorage(out_rows))
        missing_input == StageMissingInput(chap_set, instore)
        reusable == StageReusable(incremental, instore, outstore, chap_set)
        to_process == (chap_set \ reusable) \ missing_input
        res == StageLoop(list, 1, pconf, fail_at, instore, outstore, <<>>, <<>>)
    IN [reusable |-> reusable, missing_input |-> missing_input,
        to_process |-> to_process,
        read |-> DOMAIN get_chapters(instore, list).value,
        transformed |-> res.transformed,
        total |-> Len(chap_ids),
        progress |-> StageProgress(ui, StageDone(reusable, missing_input),
                                   Len(list), fail_at),
        raised |-> res.raised,
        out |-> close(res.out).disk]

RECURSIVE DetectFrom(_, _, _, _)
\* for stg in reversed(meta["pipeline"]), from its k-th element down.
DetectFrom(pipeline, k, files, infos) ==
    IF k = 0 THEN "raw"
    ELSE IF pipeline[k] \in files /\ pipeline[k] \in infos THEN pipeline[k]
    ELSE DetectFrom(pipeline, k - 1, files, infos)

\* _detect_latest_stage; files and infos: the stages whose chapter.<stage>.sqlite
\* and book_info.<stage>.json exist.
_detect_latest_stage(meta, files, infos) ==
    DetectFrom(meta.pipeline, Len(meta.pipeline), files, infos)

\* ----------------------------------------------------------- download_book
\* The site: every chapter's content, and the id its extra["next_cid"] names.
NextCid(id) == IF id = "a" THEN "b" ELSE IF id = "b" THEN "c" ELSE ""

\* What get_chapter returns for id when it returns a chapter.
Fetched(id) == ChapterDict(id, 1, NextCid(id))

Range(seq) == {seq[k] : k \in 1..Len(seq)}

\* start_id, end_id: not given.
None == "None"

\* The chapters of the volumes, in the order of the two for loops.
RECURSIVE VolumeChapters(_, _)
VolumeChapters(vols, v) ==
    IF v > Len(vols) THEN <<>> ELSE vols[v] \o VolumeChapters(vols, v + 1)

RECURSIVE ExtractFrom(_, _, _, _, _, _, _)
\* The loop body of _extract_chapter_ids from the k-th chapter on: what is
\* appended to out before the function returns.
ExtractFrom(chaps, k, seen_start, start_id, end_id, ignore, fetch_inaccessible) ==
    IF k > Len(chaps) THEN <<>>
    ELSE LET cid == chaps[k].chapterId
             appended == IF cid \notin ignore
                            /\ (chaps[k].accessible \/ fetch_inaccessible)
                         THEN <<cid>> ELSE <<>>
         IN IF cid = ""
            THEN ExtractFrom(chaps, k + 1, seen_start, start_id, end_id, ignore,
                             fetch_inaccessible)
            ELSE IF ~seen_start /\ cid # start_id
            THEN ExtractFrom(chaps, k + 1, FALSE, start_id, end_id, ignore,
                             fetch_inaccessible)
            ELSE IF end_id # None /\ cid = end_id THEN appended
            ELSE appended \o ExtractFrom(chaps, k + 1, TRUE, start_id, end_id, ignore,
                                         fetch_inaccessible)

\* _extract_chapter_ids that never returns at end_id.
ExtractIgnoringEnd(vols, start_id, end_id, ignore, fetch_inaccessible) ==
    ExtractFrom(VolumeChapters(vols, 1), 1, start_id = None, start_id, None, ignore,
                fetch_inaccessible)

\* _extract_chapter_ids; fetch_inaccessible: self._fetch_inaccessible.
_extract_chapter_ids(vols, start_id, end_id, ignore, fetch_inaccessible) ==
    ExtractFrom(VolumeChapters(vols, 1), 1, start_id = None, start_id, end_id, ignore,
                fetch_inaccessible)

\* The volumes of a download_book call: one volume, a chapter with no
\* chapterId has "", every chapter is accessible.
DlVolumes(info) ==
    <<[k \in 1..Len(info) |-> [chapterId |-> info[k], accessible |-> TRUE]]>>

\* The plan of a download_book call over the whole book (start_id and end_id
\* None).
DlPlanIds(info, ignore) ==
    _extract_chapter_ids(DlVolumes(info), None, None, ignore, FALSE)

\* The base _dl_check_refetch.
_dl_check_refetch(item) == FALSE

\* The download_book call:
\*   info, ignore   book_info's chapter ids ("" where chapterId is missing), and
\*                  book.ignore_ids
\*   workers, storage_batch_size, cache_chapter   the client's settings
\*   store0    the rows of chapter.raw.sqlite before the call
\*   main      where download_book is: "repair" (_dl_fix_chapter_ids), "gather"
\*             (line 200), "putstop" (203), "await_storage" (204),
\*             "cancel_putstop" (207), "cancel_wait" (210), "returned", "raised"
\*   rk, prev  _dl_fix_chapter_ids: the chapter it looks at next, and prev_cid
\*   plan      the plan ("" until it is computed), one producer per entry
\*   prod      each producer: "waiting" (for sem), "fetching" (in get_chapter),
\*             "putting" (in save_q.put), "sleeping" (in _sleep), "done",
\*             "cancelled"
\*   q         save_q: chapter ids and "STOP"
\*   batches   need_refetch -> the ids of the batch
\*   done      the nonlocal done
\*   cons      storage_worker: "waiting" (in save_q.get), "done", "cancelled"
\*   cancelled a cancellation was requested
\* and what happened so far:
\*   progress  the on_progress calls: done, and the number of plan entries whose
\*             chapter is a committed row at the time of the call
\*   enq       the chapter ids put on save_q
\*   enqSeq    the chapter ids put on save_q, in the order of the puts
\*   okBatches the batches whose upsert_chapters returned
\*   repaired  the ids _dl_fix_chapter_ids upserted
\*   fetchFailed, writeFailed   a get_chapter returned None, an upsert raised
\* BaseClient.__init__: self._workers, self._storage_batch_size.
AtLeastOne(n) == IF n < 1 THEN 1 ELSE n

NewDownload(info, ignore, workers, batch_size, cache, store0) ==
    [info |-> info, ignore |-> ignore, workers |-> workers,
     storage_batch_size |-> batch_size, cache_chapter |-> cache, store0 |-> store0,
     main |-> "repair", rk |-> 1, prev |-> "", plan |-> <<>>, prod |-> <<>>,
     q |-> <<>>, batches |-> [need \in BOOLEAN |-> <<>>], done |-> 0,
     cons |-> "waiting", cancelled |-> FALSE, progress |-> <<>>, enq |-> {},
     enqSeq |-> <<>>,
     okBatches |-> {}, repaired |-> {}, fetchFailed |-> FALSE, writeFailed |-> FALSE]

\* Number of plan entries whose chapter is a committed row.
Present(plan, st) == Cardinality({k \in 1..Len(plan) : plan[k] \in DOMAIN st.disk})

\* A bump that counts one chapter whatever n is.
BumpOne(d, st, n) ==
    [d EXCEPT !.done = @ + 1,
              !.progress = Append(@, [done |-> d.done + 1,
                                      present |-> Present(d.plan, st)])]

\* bump(n): done += n, then ui.on_progress(done, total).
Bump(d, st, n) ==
    [d EXCEPT !.done = @ + n,
              !.progress = Append(@, [done |-> d.done + n,
                                      present |-> Present(d.plan, st)])]

\* The chapters of a batch of ids.
BatchData(ids) == [k \in 1..Len(ids) |-> Fetched(ids[k])]

\* A flush_batch that clears the batch without writing it.
FlushBatchDrops(d, st, need, fault) ==
    [d |-> [d EXCEPT !.batches[need] = <<>>], st |-> st]

\* The element of a set of one element; the values of a set are computed
\* once each, where a definition is computed again wherever it is used.
TheOne(S) == CHOOSE x \in S : TRUE

\* flush_batch(need_refetch); fault: where upsert_chapters raises (a fault past
\* the end of the batch is none). Gives [d, st].
FlushBatch(d, st, need, fault) ==
    LET batch == d.batches[need]
        eff == IF fault.at > Len(batch) THEN NoFault ELSE fault
        res == upsert_chapters(st, BatchData(batch), need, eff)
        cleared == [d EXCEPT !.batches[need] = <<>>]
    IN IF Len(batch) = 0 THEN [d |-> d, st |-> st]
       ELSE IF res.raised
       THEN [d |-> [cleared EXCEPT !.writeFailed = TRUE], st |-> res.st]
       ELSE [d |-> Bump([cleared EXCEPT !.okBatches = @ \cup {batch}], res.st,
                        Len(batch)),
             st |-> res.st]

\* flush_all
FlushAll(d, st, fault) ==
    TheOne({FlushBatch(f.d, f.st, TRUE,
                       IF Len(d.batches[FALSE]) = 0 THEN fault ELSE NoFault) :
              f \in {FlushBatch(d, st, FALSE, fault)}})

RECURSIVE StorageWorker(_, _, _)
\* storage_worker from save_q.get() on, until the queue is empty or STOP is
\* taken; fault: where the first upsert_chapters it calls raises. Gives [d, st].
StorageWorker(d, st, fault) ==
    IF Len(d.q) = 0 THEN [d |-> d, st |-> st]
    ELSE LET item == Head(d.q)
             got == [d EXCEPT !.q = Tail(@)]
         IN IF item = "STOP"
            THEN TheOne({[d |-> [f.d EXCEPT !.cons = "done"], st |-> f.st] :
                           f \in {FlushAll(got, st, fault)}})
            ELSE LET need == _dl_check_refetch(item)
                     put == [got EXCEPT !.batches[need] = Append(@, item)]
                 IN IF Len(put.batches[need]) >= d.storage_batch_size
                    THEN TheOne({StorageWorker(f.d, f.st, NoFault) :
                                   f \in {FlushBatch(put, st, need, fault)}})
                    ELSE StorageWorker(put, st, fault)

\* A semaphore that always has a permit left.
PermitsUnbounded(d) == 1

\* A semaphore whose permit a producer keeps when it is over.
PermitsKept(d) ==
    d.workers - Cardinality({k \in 1..Len(d.prod) : d.prod[k] # "waiting"})

\* The permits sem has left.
Permits(d) ==
    d.workers - Cardinality({k \in 1..Len(d.prod) :
                                d.prod[k] \in {"fetching", "putting", "sleeping"}})

\* producer(plan[i]) from the moment it holds sem to its first suspension: a
\* cached chapter is counted and the producer is over, any other is fetched.
ProducerEnters(d, st, i) ==
    IF d.cache_chapter /\ ~need_refetch(st, d.plan[i])
    THEN Bump([d EXCEPT !.prod[i] = "done"], st, 1)
    ELSE [d EXCEPT !.prod[i] = "fetching"]

RECURSIVE StartProducers(_, _, _)
\* The first step of each producer task from the i-th on, in the order the
\* tasks were created: it enters if sem has a permit and waits if not.
StartProducers(d, st, i) ==
    IF i > Len(d.plan) THEN d
    ELSE StartProducers(IF Permits(d) > 0 THEN ProducerEnters(d, st, i) ELSE d,
                        st, i + 1)

\* A put that jumps the queue.
QPutFront(d, item) == [d EXCEPT !.q = <<item>> \o @]

\* save_q.put(item) when the queue has room.
QPut(d, item) == [d EXCEPT !.q = Append(@, item)]

\* ------------------------------------------------------------------- state

VARIABLES
    cs,       \* the ChapterStorage instance (SpecStore; the raw store of SpecDl)
    csRet,    \* SpecStore: the last call, [op, raised, value]
    gc,       \* SpecRetry: the get_chapter call
    pstores,  \* SpecProc: the rows of chapter.<stage>.sqlite, stage "raw" included
    pfiles,   \* SpecProc: the stages whose chapter.<stage>.sqlite exists
    pinfos,   \* SpecProc: the stages whose book_info.<stage>.json exists
    meta,     \* SpecProc: pipeline.json
    run,      \* SpecProc: the process_book call under way
    lastStage, \* SpecProc: what the last _pc_run_stage did
    lastRun,  \* SpecProc: the last process_book call that ended
    okOptions, \* SpecProc: the options of each stage's last successful execution
    rawTouched, \* SpecProc: the raw store was written since the last call ended
    dl,       \* SpecDl: the download_book call
    fn        \* SpecInc, SpecPlan, SpecOps: the call of a function, its arguments
              \* and result; SpecRate: the rate limiter and its waiting tasks;
              \* SpecMedia: one _dl_fetch_media_resources call;
              \* SpecStage: one _pc_run_stage call

storeVars == <<cs, csRet>>

retryVars == <<gc>>

procVars == <<pstores, pfiles, pinfos, meta, run, lastStage, lastRun,
              okOptions, rawTouched>>

dlVars == <<dl>>

fnVars == <<fn>>

vars == <<cs, csRet, gc, pstores, pfiles, pinfos, meta, run, lastStage, lastRun,
          okOptions, rawTouched, dl, fn>>

\* The components a specification leaves alone.
IdleStore ==
    /\ cs = NewStorage(EmptyMap)
    /\ csRet = [op |-> "init", raised |-> FALSE, value |-> "none"]

IdleRetry == gc = GcCall("a", 0, 1)

StoreNames == {"raw"} \cup Stages

NoStores == [n \in StoreNames |-> EmptyMap]

NoRun == [pc |-> "idle", names |-> <<>>, idx |-> 0, completed |-> <<>>,
          transformed |-> {}, repeats |-> FALSE, before |-> NoStores]

NoStage == [stage |-> "none", options |-> NoOptions, input |-> "none",
            incremental |-> FALSE, reusable |-> {}, missing |-> {},
            transformed |-> {}, ok |-> FALSE, prevOptions |-> NoOptions]

NoEnded == [ok |-> FALSE, transformed |-> {}, repeats |-> FALSE,
            unchanged |-> FALSE, result |-> "NoCall", on_missing |-> "none"]

IdleProc ==
    /\ pstores = NoStores
    /\ pfiles = {"raw"}
    /\ pinfos = {"raw"}
    /\ meta = EmptyMeta
    /\ run = NoRun
    /\ lastStage = NoStage
    /\ lastRun = NoEnded
    /\ okOptions = [n \in Stages |-> NoOptions]
    /\ rawTouched = FALSE

IdleDl == dl = NewDownload(<<>>, {}, 1, 1, TRUE, EmptyMap)

IdleFn == fn = [op |-> "none", pc |-> "idle"]

\* ---------------------------------------------------------------- SpecStore

\* The ids SpecStore's calls are made with.
StoreIds == {"a", "b"}

Chapters == {ChapterDict(i, c, "") : i \in StoreIds, c \in Contents}

IdLists == UNION {[1..n -> StoreIds] : n \in 0..MaxBatch}

\* The faults a call over n records can meet.
Faults(n) ==
    {NoFault} \cup {Fault(k, at) : k \in {"build", "exec"}, at \in 1..n}

Called(op, res) ==
    /\ cs' = res.st
    /\ csRet' = [op |-> op, raised |-> res.raised, value |-> res.value]
    /\ UNCHANGED <<retryVars, fnVars, procVars, dlVars>>

InitStore == IdleStore /\ IdleRetry /\ IdleProc /\ IdleDl /\ IdleFn

StoreConnect == Called("connect", Result(connect(cs), FALSE, "none"))

StoreClose == Called("close", Result(close(cs), FALSE, "none"))

StoreUpsertChapter ==
    \E data \in Chapters, need \in BOOLEAN, f \in Faults(1) :
        Called("upsert_chapter", upsert_chapter(cs, data, need, f))

StoreUpsertChapters ==
    \E ids \in IdLists, c \in Contents, need \in BOOLEAN :
        \E f \in Faults(Len(ids)) :
            Called("upsert_chapters",
                   upsert_chapters(cs, [k \in 1..Len(ids) |-> ChapterDict(ids[k], c, "")],
                                   need, f))

StoreGetChapter ==
    \E id \in StoreIds : Called("get_chapter", get_chapter(cs, id))

StoreGetChapters ==
    \E ids \in IdLists : Called("get_chapters", get_chapters(cs, ids))

StoreDeleteChapter ==
    \E id \in StoreIds, f \in {NoFault, Fault("exec", 1)} :
        Called("delete_chapter", delete_chapter(cs, id, f))

StoreDeleteChapters ==
    \E ids \in IdLists, f \in {NoFault, Fault("exec", 1)} :
        Called("delete_chapters", delete_chapters(cs, ids, f))

NextStore ==
    \/ StoreConnect
    \/ StoreClose
    \/ StoreUpsertChapter
    \/ StoreUpsertChapters
    \/ StoreGetChapter
    \/ StoreGetChapters
    \/ StoreDeleteChapter
    \/ StoreDeleteChapters

SpecStore == InitStore /\ [][NextStore]_vars

\* C10: after any sequence of upsert_chapter, upsert_chapters, delete_chapter
\* and delete_chapters calls, returned or raised, the in-memory index holds
\* exactly the ids of the stored rows, each with the need_refetch flag of its row.
IndexAgreesWithRows ==
    cs.conn =>
        /\ DOMAIN cs.flags = DOMAIN cs.rows
        /\ \A i \in DOMAIN cs.flags : cs.flags[i] = cs.rows[i].need_refetch

\* C22: after any sequence of operations, need_refetch(id) is true and
\* exists(id) is false for every id the store has no row for.
UnknownIdConservative ==
    \A id \in StoreIds :
        id \notin DOMAIN cs.rows => (need_refetch(cs, id) /\ ~exists(cs, id))

\* ----------------------------------------------------------------- SpecProc
\* A book whose raw store and raw book info exist or not; a raw store that
\* exists holds any of the book's chapters, clean or flagged need_refetch.
\* process_book is called again and again; between two calls a download may
\* save the raw book info and rewrite raw chapters.

RawRows(id) == {Row(ChapterDict(id, RawContent(1), ""), need) : need \in BOOLEAN}

InitProc ==
    /\ IdleStore
    /\ IdleRetry
    /\ IdleDl
    /\ IdleFn
    /\ \E present \in SUBSET ProcIds, dirty \in SUBSET ProcIds :
        /\ dirty \subseteq present
        /\ \E files \in SUBSET {"raw"}, infos \in SUBSET {"raw"} :
            /\ "raw" \notin files => present = {}
            /\ pfiles = files
            /\ pinfos = infos
        /\ pstores = [n \in StoreNames |->
                        IF n = "raw"
                        THEN [i \in present |->
                                Row(ChapterDict(i, RawContent(1), ""), i \in dirty)]
                        ELSE EmptyMap]
    /\ meta = EmptyMeta
    /\ run = NoRun
    /\ lastStage = NoStage
    /\ lastRun = NoEnded
    /\ okOptions = [n \in Stages |-> NoOptions]
    /\ rawTouched = FALSE

\* A test of the raw stage files that looks at the chapter store only.
MissingRawStoreOnly(files, infos) == "raw" \notin files

\* process_book's test of the raw stage files.
MissingRaw(files, infos) == "raw" \notin files \/ "raw" \notin infos

\* download_book / download_chapter between two process_book calls: a raw
\* chapter is upserted (into a chapter.raw.sqlite that is created if need be).
ProcRawUpsert ==
    /\ run.pc = "idle"
    /\ \E id \in ProcIds : \E r \in RawRows(id) :
        /\ IF id \in DOMAIN pstores["raw"] THEN pstores["raw"][id] # r ELSE TRUE
        /\ pstores' = [pstores EXCEPT !["raw"] = Put(@, id, r)]
    /\ pfiles' = pfiles \cup {"raw"}
    /\ rawTouched' = TRUE
    /\ lastStage' = NoStage
    /\ UNCHANGED <<storeVars, retryVars, fnVars, dlVars, pinfos, meta, run, lastRun,
                   okOptions>>

\* A download between two process_book calls saves book_info.raw.json.
ProcRawInfoSaved ==
    /\ run.pc = "idle"
    /\ "raw" \notin pinfos
    /\ pinfos' = pinfos \cup {"raw"}
    /\ lastStage' = NoStage
    /\ UNCHANGED <<storeVars, retryVars, fnVars, dlVars, pstores, pfiles, meta, run,
                   lastRun, okOptions, rawTouched>>

\* process_book when a raw stage file is missing: ui.on_missing(book, "raw",
\* raw_sqlite) if a ui was passed, then return.
ProcMissing ==
    /\ run.pc = "idle"
    /\ MissingRaw(pfiles, pinfos)
    /\ \E ui \in BOOLEAN :
        lastRun' = [ok |-> FALSE, transformed |-> {}, repeats |-> FALSE,
                    unchanged |-> TRUE, result |-> "None",
                    on_missing |-> IF ui THEN "raw" ELSE "no ui"]
    /\ lastStage' = NoStage
    /\ UNCHANGED <<storeVars, retryVars, fnVars, dlVars, pstores, pfiles, pinfos, meta,
                   run, okOptions, rawTouched>>

\* process_book up to its loop: the raw files exist, meta["pipeline"] is saved.
\* run.repeats: the call before this one ended with every stage returned, the
\* raw store was not written since, and this call runs the same stages, each
\* with overwrite off and with the options it had in the call before.
ProcStart ==
    /\ run.pc = "idle"
    /\ ~MissingRaw(pfiles, pinfos)
    /\ \E names \in StageLists :
        /\ meta' = [meta EXCEPT !.pipeline = names]
        /\ run' = [pc |-> "running", names |-> names, idx |-> 1, completed |-> <<>>,
                   transformed |-> {},
                   repeats |-> lastRun.ok /\ ~rawTouched /\ names = meta.pipeline,
                   before |-> pstores]
    /\ lastStage' = NoStage
    /\ UNCHANGED <<storeVars, retryVars, fnVars, dlVars, pstores, pfiles, pinfos, lastRun,
                   okOptions, rawTouched>>

\* The call ends (its loop is over, or a stage raised and the except clause
\* logged it). lastRun remembers of it:
\*   ok           every stage returned
\*   transformed  the <<stage, chapter>> pairs process_chapter was called for
\*   repeats      run.repeats when it ended
\*   unchanged    it left every store as it found it
\*   result       what the caller got
\* What a process_book call that reached its loop hands to its caller. The
\* except clause logs the exception of a stage and the function falls off its
\* end, as it does after the last stage: None either way, nothing raised.
ProcessBookResult(ok) == IF ok THEN "None" ELSE "None"

\* An except clause that goes on with the loop: the run stays where it is.
EndedOnlyWhenOk(r, ok, stores) ==
    IF ok
    THEN /\ run' = NoRun
         /\ lastRun' = [ok |-> ok, transformed |-> r.transformed,
                        repeats |-> r.repeats, unchanged |-> stores = r.before,
                        result |-> ProcessBookResult(ok), on_missing |-> "none"]
         /\ rawTouched' = FALSE
    ELSE /\ run' = r
         /\ UNCHANGED <<lastRun, rawTouched>>

Ended(r, ok, stores) ==
    /\ run' = NoRun
    /\ lastRun' = [ok |-> ok, transformed |-> r.transformed,
                   repeats |-> r.repeats, unchanged |-> stores = r.before,
                        result |-> ProcessBookResult(ok), on_missing |-> "none"]
    /\ rawTouched' = FALSE

\* One iteration of process_book's loop: _pc_run_stage, and when it returns
\* _pc_record_execution. fail_at: the element of to_process_list at which
\* process_chapter raises (0: it never does).
ProcStage ==
    /\ run.pc = "running"
    /\ \E options \in StageOptions(run.names[run.idx]), overwrite \in BOOLEAN :
        LET name == run.names[run.idx]
            pconf == ProcessorConfig(name, overwrite, options)
            input == IF run.idx = 1 THEN "raw" ELSE run.names[run.idx - 1]
            incremental == _pc_is_incremental(meta, pfiles, pconf, run.completed)
            instore == connect(NewStorage(pstores[input]))
            outstore == connect(NewStorage(pstores[name]))
            chap_set == ProcIds
            missing_input == StageMissingInput(chap_set, instore)
            reusable == StageReusable(incremental, instore, outstore, chap_set)
            to_process == (chap_set \ reusable) \ missing_input
        IN \E list \in Orders(to_process), fail_at \in 0..Cardinality(to_process) :
            LET res == StageLoop(list, 1, pconf, fail_at, instore, outstore, <<>>, <<>>)
                ran == [run EXCEPT
                          !.repeats = @ /\ ~overwrite /\ options = okOptions[name],
                          !.transformed = @ \cup {<<name, c>> : c \in res.transformed}]
                after == [pstores EXCEPT ![name] = close(res.out).disk]
            IN /\ pstores' = after
               /\ pfiles' = pfiles \cup {name}
               /\ pinfos' = pinfos \cup {name}
               /\ lastStage' = [stage |-> name, options |-> options, input |-> input,
                                incremental |-> incremental, reusable |-> reusable,
                                missing |-> missing_input,
                                transformed |-> res.transformed, ok |-> ~res.raised,
                                prevOptions |-> okOptions[name]]
               /\ IF res.raised
                  THEN /\ Ended(ran, FALSE, after)
                       /\ UNCHANGED <<meta, okOptions>>
                  ELSE /\ meta' = _pc_record_execution(meta, pconf, run.completed)
                       /\ okOptions' = [okOptions EXCEPT ![name] = options]
                       /\ IF run.idx = Len(run.names)
                          THEN Ended(ran, TRUE, after)
                          ELSE /\ run' = [ran EXCEPT !.idx = @ + 1,
                                                     !.completed = Append(@, name)]
                               /\ UNCHANGED <<lastRun, rawTouched>>
    /\ UNCHANGED <<storeVars, retryVars, fnVars, dlVars>>

\* The stage fails before it touches a file: its upstream file is gone
\* (FileNotFoundError), hub.build_processor raises (the stage is not
\* registered, its options are rejected), or process_book_info raises on the
\* book metadata.
ProcStageBuildFails ==
    /\ run.pc = "running"
    /\ lastStage' = [NoStage EXCEPT !.stage = run.names[run.idx]]
    /\ Ended(run, FALSE, pstores)
    /\ UNCHANGED <<storeVars, retryVars, fnVars, dlVars, pstores, pfiles, pinfos, meta,
                   okOptions>>

NextProc ==
    \/ ProcRawUpsert
    \/ ProcRawInfoSaved
    \/ ProcMissing
    \/ ProcStart
    \/ ProcStage
    \/ ProcStageBuildFails

SpecProc == InitProc /\ [][NextProc]_vars

\* The store a stage of the pipeline names reads: the raw store for the first
\* stage, the store of the stage before it for the others.
StageInput(names, stage) ==
    LET k == CHOOSE i \in 1..Len(names) : names[i] = stage
    IN IF k = 1 THEN "raw" ELSE names[k - 1]

\* What the stage's transform with the given options makes of the row the
\* input store holds for cid.
Recomputed(stage, options, input, cid) ==
    process_chapter(stage, options,
                    ChapterDict(cid, pstores[input][cid].content,
                                pstores[input][cid].next)).content

\* C4: whenever a stage run skips a chapter as reusable, the row already in
\* the stage's output store equals what the stage's transform with the current
\* options produces from the chapter's current input-store row.
ReuseIsSafe ==
    \A cid \in lastStage.reusable :
        pstores[lastStage.stage][cid].content =
            Recomputed(lastStage.stage, lastStage.options, lastStage.input, cid)

\* C5 as stated: a process_book call that repeats the call before it (same
\* stages, same options, overwrite off, raw store not written in between, the
\* call before having run every stage) calls the transform for no chapter and
\* leaves every store as it found it.
IncrementalSkipZeroTransforms ==
    (run.pc = "idle" /\ lastRun.ok /\ lastRun.repeats)
        => (lastRun.transformed = {} /\ lastRun.unchanged)

\* C5, amended: such a call calls the transform only for chapters flagged
\* need_refetch in the input store of the stage, and leaves every store as it
\* found it.
IncrementalSkip ==
    (run.pc = "idle" /\ lastRun.ok /\ lastRun.repeats /\ ~rawTouched)
        => /\ lastRun.unchanged
           /\ \A p \in lastRun.transformed :
                pstores[StageInput(meta.pipeline, p[1])][p[2]].need_refetch

\* A repeated two-stage call that found the chapter clean in each input store
\* and in each output store, and transformed nothing.
IncrementalSkipWitness ==
    /\ run.pc = "idle" /\ lastRun.ok /\ lastRun.repeats /\ ~rawTouched
    /\ meta.pipeline = <<"s1", "s2">>
    /\ lastRun.transformed = {}
    /\ lastStage.reusable = {"a"}
    /\ "a" \in DOMAIN pstores["s1"] /\ ~pstores["raw"]["a"].need_refetch

\* C6: a stage run that returns, with options that differ from the options of
\* the stage's last successful execution, reuses no chapter: it transforms
\* every requested chapter its input store holds and rewrites its row.
OptionsChangeRecomputes ==
    (lastStage.ok /\ lastStage.prevOptions # NoOptions
                  /\ lastStage.options # lastStage.prevOptions)
        => /\ lastStage.reusable = {}
           /\ lastStage.transformed = ProcIds \cap DOMAIN pstores[lastStage.input]
           /\ \A cid \in lastStage.transformed :
                pstores[lastStage.stage][cid].content =
                    Recomputed(lastStage.stage, lastStage.options, lastStage.input, cid)

\* The stages of the run's list before the one at idx.
RunPrefix(r) == SubSeq(r.names, 1, r.idx - 1)

\* executed[s] is not what it was before the step.
Rewritten(s) ==
    IF s \notin DOMAIN meta'.executed THEN FALSE
    ELSE IF s \notin DOMAIN meta.executed THEN TRUE
    ELSE meta'.executed[s] # meta.executed[s]

\* C12: executed[stage] changes only in a step in which that stage's run
\* returned without error, and every such step leaves in it a depends_on that
\* is the list of the stages the run completed before it, in order: the
\* prefix of the run's stage list before the stage.
LedgerRecords ==
    [][/\ \A s \in Stages :
            Rewritten(s) => (run.pc = "running" /\ lastStage'.stage = s /\ lastStage'.ok)
       /\ (run.pc = "running" /\ lastStage'.ok)
            => /\ lastStage'.stage = run.names[run.idx]
               /\ lastStage'.stage \in DOMAIN meta'.executed
               /\ meta'.executed[lastStage'.stage].depends_on = RunPrefix(run)
               /\ run.completed = RunPrefix(run)]_vars

\* The second stage of a run returned and its record names the first.
LedgerRecordsWitness ==
    /\ lastStage.ok /\ lastStage.stage = "s2"
    /\ meta.pipeline = <<"s1", "s2">>
    /\ meta.executed["s2"].depends_on = <<"s1">>

\* pipeline.json holds the record of the k-th stage of run r, as that stage
\* left it: the options it ran with, the stages before it.
Persisted(r, k) ==
    IF r.names[k] \notin DOMAIN meta.executed THEN FALSE
    ELSE /\ meta.executed[r.names[k]].depends_on = SubSeq(r.names, 1, k - 1)
         /\ meta.executed[r.names[k]].config_hash = HashConfig(okOptions[r.names[k]])

\* C13: the stages of a process_book call run in list order: a call starts
\* with its first stage, the stage a step runs is the one after the stage the
\* step before ran, and when a stage begins (its processor is built, its
\* book-info transformed, its stores opened) every stage before it in the
\* list has returned and has its executed record in pipeline.json.
StageSequencing ==
    [][/\ (run.pc = "idle" /\ run'.pc = "running") => run'.idx = 1
       /\ (run.pc = "running")
            => /\ lastStage'.stage = run.names[run.idx]
               /\ lastStage'.input = (IF lastStage'.ok /\ run.idx > 1
                                      THEN run.names[run.idx - 1]
                                      ELSE lastStage'.input)
               /\ \A k \in 1..(run.idx - 1) : Persisted(run, k)
               /\ run'.pc = "running"
                    => /\ run'.names = run.names
                       /\ run'.idx = run.idx + 1
                       /\ lastStage'.ok]_vars

\* The second stage of a list of two has begun, after the first.
StageSequencingWitness ==
    /\ run.pc = "idle" /\ meta.pipeline = <<"s1", "s2">>
    /\ lastStage.stage = "s2" /\ lastStage.input = "s1"
    /\ "s1" \in DOMAIN meta.executed

\* C14: a step in which a stage raises ends the call, so that no later stage
\* of it runs, and leaves the ledger, the raw store and the output store of
\* every stage the call completed before it exactly as they were.
StageFailureStops ==
    [][(run.pc = "running" /\ ~lastStage'.ok)
          => /\ run'.pc = "idle"
             /\ ~lastRun'.ok
             /\ meta' = meta
             /\ pstores'["raw"] = pstores["raw"]
             /\ \A k \in 1..(run.idx - 1) :
                    /\ pstores'[run.names[k]] = pstores[run.names[k]]
                    /\ run.names[k] \in pfiles'
                    /\ Persisted(run, k)]_vars

\* The second stage raised at a chapter, after the first had returned.
StageFailureStopsWitness ==
    /\ run.pc = "idle" /\ ~lastRun.ok
    /\ meta.pipeline = <<"s1", "s2">>
    /\ lastStage.stage = "s2" /\ lastStage.input = "s1" /\ ~lastStage.ok
    /\ "s1" \in DOMAIN meta.executed

\* C15: a process_book call in which a stage failed hands its caller an
\* exception, or a result that is not the result of a call in which every
\* stage returned.
FailureReachesCaller ==
    (lastRun.result # "NoCall" /\ ~lastRun.ok)
        => (lastRun.result = "raised" \/ lastRun.result # ProcessBookResult(TRUE))

\* C21: while chapter.raw.sqlite or book_info.raw.json is missing, a
\* process_book call reports on_missing for the raw stage (to the ui, if one
\* was passed) and returns: no stage is started or run, no stage store or
\* stage file is written, and pipeline.json is neither created nor changed.
MissingInputLeavesAll ==
    [][("raw" \notin pfiles \/ "raw" \notin pinfos)
         => /\ run' = run /\ run.pc = "idle"
            /\ meta' = meta
            /\ lastStage' = NoStage
            /\ \A n \in Stages : pstores'[n] = pstores[n]
            /\ pfiles' \ {"raw"} = pfiles \ {"raw"}
            /\ pinfos' \ {"raw"} = pinfos \ {"raw"}
            /\ lastRun' # lastRun
                 => /\ lastRun'.on_missing \in {"raw", "no ui"}
                    /\ lastRun'.result = "None"
                    /\ lastRun'.transformed = {}
                    /\ UNCHANGED <<pstores, pfiles, pinfos>>]_vars

\* A process_book call with a ui returned after on_missing: the raw store is
\* there, the raw book info is not, and there is no pipeline.json.
MissingInputLeavesAllWitness ==
    /\ lastRun.on_missing = "raw"
    /\ "raw" \in pfiles /\ "raw" \notin pinfos
    /\ pstores["raw"] # EmptyMap
    /\ meta = EmptyMeta

\* C30: in a stage run, a requested chapter whose row in the stage's output
\* store is flagged need_refetch when the run begins is not reusable, and when
\* the input store holds the chapter and the run goes through, it is
\* transformed again.
StaleOutputReprocessed ==
    [][run.pc = "running"
        => LET name == run.names[run.idx]
               input == IF run.idx = 1 THEN "raw" ELSE run.names[run.idx - 1] IN
           \A cid \in dirty_ids(connect(NewStorage(pstores[name]))) :
                /\ cid \notin lastStage'.reusable
                /\ (cid \in DOMAIN pstores[input] /\ lastStage'.ok)
                        => cid \in lastStage'.transformed]_vars

\* C38: a requested id that the input store of a stage run lacks is not
\* transformed and is not in the stage's output store when the run ends, and
\* so is missing again for the stage that reads that store; a run with nothing
\* but missing chapters goes through.
MissingInputSkipped ==
    lastStage.stage # "none"
        => /\ \A cid \in lastStage.missing :
                /\ cid \notin lastStage.transformed
                /\ cid \notin DOMAIN pstores[lastStage.stage]
           /\ (lastStage.missing = ProcIds /\ lastStage.options # NoOptions)
                => lastStage.ok
           /\ (lastStage.input # "raw" /\ lastStage.options # NoOptions)
                => (ProcIds \ DOMAIN pstores[lastStage.input]) \subseteq lastStage.missing

\* Stage s2 has run after s1 in a book whose raw store lacks the chapter: it is
\* missing for s2 as well, and in neither store.
MissingInputSkippedWitness ==
    /\ lastStage.stage = "s2" /\ lastStage.input = "s1" /\ lastStage.ok
    /\ lastStage.missing = {"a"}
    /\ "a" \notin DOMAIN pstores["s1"]
    /\ "a" \notin DOMAIN pstores["s2"]
    /\ "a" \notin DOMAIN pstores["raw"]

\* The stages of the ledger's pipeline list whose two files exist, as their
\* positions in the list.
Qualifying ==
    {k \in 1..Len(meta.pipeline) :
        meta.pipeline[k] \in pfiles /\ meta.pipeline[k] \in pinfos}

\* The stages with an executed record whose chapter store file exists.
ExecutedWithStore == {stg \in DOMAIN meta.executed : stg \in pfiles}

\* C40: between process_book calls, _detect_latest_stage returns the last
\* stage of the ledger's pipeline list whose chapter store file and book-info
\* file both exist; when no stage of the list has both, a stage with an
\* executed record whose chapter store file exists; and "raw" when there is
\* none either.
LatestStageDetected ==
    run.pc = "idle"
        => LET stage == _detect_latest_stage(meta, pfiles, pinfos) IN
           IF Qualifying # {}
           THEN stage = meta.pipeline[CHOOSE k \in Qualifying :
                                        \A j \in Qualifying : j <= k]
           ELSE IF ExecutedWithStore # {}
           THEN stage \in ExecutedWithStore
           ELSE stage = "raw"

\* ------------------------------------------------------------------- SpecDl
\* One download_book call with a ui, on a book of two or three chapters:
\* plain, with a chapter listed twice, or with a chapterId missing.
Infos == {<<"a", "b">>, <<"a", "a">>, <<"a", "", "c">>}

Ignores == {{}, {"a"}}

\* chapter.raw.sqlite before the call: no row, or chapter b stored clean.
Stores0 == {EmptyMap, [i \in {"b"} |-> Row(Fetched("b"), FALSE)]}

InitDl ==
    /\ IdleRetry
    /\ IdleProc
    /\ IdleFn
    /\ csRet = [op |-> "init", raised |-> FALSE, value |-> "none"]
    /\ \E info \in Infos, ignore \in Ignores, cfg_workers \in 0..MaxWorkers,
          cfg_batch_size \in 0..MaxBatch, cache \in BOOLEAN, store0 \in Stores0 :
        /\ dl = NewDownload(info, ignore, AtLeastOne(cfg_workers),
                            AtLeastOne(cfg_batch_size), cache, store0)
        /\ cs = connect(NewStorage(store0))

\* _dl_fix_chapter_ids, one chapter of book_info; ok: get_chapter returns the
\* chapter (when it is called).
DlFixChapterId ==
    /\ dl.main = "repair" /\ dl.rk <= Len(dl.info)
    /\ \E ok \in BOOLEAN :
        LET cid == dl.info[dl.rk]
            next == [dl EXCEPT !.rk = @ + 1]
            stored == dl.prev \in DOMAIN cs.rows
            next_cid == IF stored THEN cs.rows[dl.prev].next ELSE NextCid(dl.prev)
            named == IF next_cid = "" THEN next
                     ELSE [next EXCEPT !.info[dl.rk] = next_cid, !.prev = next_cid]
        IN IF cid # "" THEN dl' = [next EXCEPT !.prev = cid] /\ cs' = cs
           ELSE IF dl.prev = "" THEN dl' = next /\ cs' = cs
           ELSE IF stored THEN dl' = named /\ cs' = cs
           ELSE IF ~ok THEN dl' = [next EXCEPT !.fetchFailed = TRUE] /\ cs' = cs
           ELSE /\ cs' = upsert_chapter(cs, Fetched(dl.prev), FALSE, NoFault).st
                /\ dl' = [named EXCEPT !.repaired = @ \cup {dl.prev}]
    /\ UNCHANGED <<csRet, retryVars, fnVars, procVars>>

\* From the plan to the gather: an empty plan returns; otherwise storage_task
\* and the producer tasks are created, download_book waits in gather and every
\* task runs to its first suspension.
DlPlan ==
    /\ dl.main = "repair" /\ dl.rk > Len(dl.info)
    /\ LET plan == DlPlanIds(dl.info, dl.ignore)
       IN IF Len(plan) = 0
          THEN dl' = [dl EXCEPT !.main = "returned"] /\ cs' = close(cs)
          ELSE /\ dl' = StartProducers([dl EXCEPT !.plan = plan,
                                                  !.prod = [k \in 1..Len(plan) |-> "waiting"],
                                                  !.main = "gather"],
                                       cs, 1)
               /\ cs' = cs
    /\ UNCHANGED <<csRet, retryVars, fnVars, procVars>>

\* A producer waiting for sem gets it: the first of the waiting ones.
DlProducerEnters(i) ==
    /\ dl.prod[i] = "waiting"
    /\ Permits(dl) > 0
    /\ \A j \in 1..(i - 1) : dl.prod[j] # "waiting"
    /\ dl' = ProducerEnters(dl, cs, i)
    /\ UNCHANGED <<storeVars, retryVars, fnVars, procVars>>

\* get_chapter returns to the producer: a chapter is put on save_q (the
\* producer waits if the queue is full), None is dropped; then _sleep.
DlFetched(i) ==
    /\ dl.prod[i] = "fetching"
    /\ \E ok \in BOOLEAN :
        dl' = IF ~ok THEN [dl EXCEPT !.prod[i] = "sleeping", !.fetchFailed = TRUE]
              ELSE IF Len(dl.q) >= MaxQueue THEN [dl EXCEPT !.prod[i] = "putting"]
              ELSE [QPut(dl, dl.plan[i]) EXCEPT !.prod[i] = "sleeping",
                                                !.enq = @ \cup {dl.plan[i]},
                                                !.enqSeq = Append(@, dl.plan[i])]
    /\ UNCHANGED <<storeVars, retryVars, fnVars, procVars>>

\* save_q.put returns to a producer that waited for room.
DlPut(i) ==
    /\ dl.prod[i] = "putting"
    /\ Len(dl.q) < MaxQueue
    /\ dl' = [QPut(dl, dl.plan[i]) EXCEPT !.prod[i] = "sleeping",
                                          !.enq = @ \cup {dl.plan[i]},
                                                !.enqSeq = Append(@, dl.plan[i])]
    /\ UNCHANGED <<storeVars, retryVars, fnVars, procVars>>

\* _sleep returns: the producer leaves sem and is over.
DlSlept(i) ==
    /\ dl.prod[i] = "sleeping"
    /\ dl' = [dl EXCEPT !.prod[i] = "done"]
    /\ UNCHANGED <<storeVars, retryVars, fnVars, procVars>>

\* storage_worker runs: it takes what save_q holds.
DlStorageWorker ==
    /\ dl.cons = "waiting"
    /\ Len(dl.q) > 0
    /\ \E fault \in Faults(MaxBatch) :
        \E res \in {StorageWorker(dl, cs, fault)} :
            dl' = res.d /\ cs' = res.st
    /\ UNCHANGED <<csRet, retryVars, fnVars, procVars>>

\* storage_worker runs as in DlStorageWorker and ends its step in a flush whose
\* ui.on_progress call (the await of bump) has not returned yet.
DlProgressPending ==
    /\ dl.cons = "waiting"
    /\ Len(dl.q) > 0
    /\ \E fault \in Faults(MaxBatch) :
        \E res \in {StorageWorker(dl, cs, fault)} :
           /\ Len(res.d.progress) > Len(dl.progress)
           /\ res.d.batches = [need \in BOOLEAN |-> <<>>]
           /\ dl' = [res.d EXCEPT !.cons = IF @ = "done" THEN "on_progress_last"
                                           ELSE "on_progress"]
           /\ cs' = res.st
    /\ UNCHANGED <<csRet, retryVars, fnVars, procVars>>

\* ui.on_progress returns to storage_worker: back to save_q.get(), or, after
\* the flush_all that follows STOP, to its end.
DlProgressReturns ==
    /\ dl.cons \in {"on_progress", "on_progress_last"}
    /\ dl' = [dl EXCEPT !.cons = IF @ = "on_progress" THEN "waiting" ELSE "done"]
    /\ UNCHANGED <<storeVars, retryVars, fnVars, procVars>>

\* ui.on_progress raises in storage_worker: flush_batch catches only what
\* upsert_chapters raises, so storage_task is over with the exception.
DlProgressRaises ==
    /\ dl.cons \in {"on_progress", "on_progress_last"}
    /\ dl' = [dl EXCEPT !.cons = "failed"]
    /\ UNCHANGED <<storeVars, retryVars, fnVars, procVars>>

\* ui.on_progress raises in the bump(1) of a producer that found its chapter
\* cached: gather raises it to download_book while the other producers run on;
\* no except clause takes it, the finally clause cancels a storage_task that
\* is not over and awaits it, the with block closes the store.
DlProducerRaises(i) ==
    /\ dl.main = "gather"
    /\ dl.prod[i] = "waiting"
    /\ Permits(dl) > 0
    /\ \A j \in 1..(i - 1) : dl.prod[j] # "waiting"
    /\ dl.cache_chapter /\ ~need_refetch(cs, dl.plan[i])
    /\ dl' = [Bump(dl, cs, 1) EXCEPT !.prod[i] = "failed",
                                      !.main = "failed",
                                      !.cons = IF @ \in {"done", "failed"} THEN @
                                               ELSE "cancelled"]
    /\ cs' = close(cs)
    /\ UNCHANGED <<csRet, retryVars, fnVars, procVars>>

\* gather returns: STOP is put (download_book waits if the queue is full), then
\* storage_task is awaited.
DlGathered ==
    /\ dl.main = "gather"
    /\ \A k \in 1..Len(dl.prod) : dl.prod[k] = "done"
    /\ dl' = IF Len(dl.q) >= MaxQueue THEN [dl EXCEPT !.main = "putstop"]
             ELSE [QPut(dl, "STOP") EXCEPT !.main = "await_storage"]
    /\ UNCHANGED <<storeVars, retryVars, fnVars, procVars>>

DlPutStop ==
    /\ dl.main = "putstop"
    /\ Len(dl.q) < MaxQueue
    /\ dl' = [QPut(dl, "STOP") EXCEPT !.main = "await_storage"]
    /\ UNCHANGED <<storeVars, retryVars, fnVars, procVars>>

\* storage_task is over: the with block closes the store, download_book returns.
DlStorageDone ==
    /\ dl.main = "await_storage"
    /\ dl.cons = "done"
    /\ dl' = [dl EXCEPT !.main = "returned"]
    /\ cs' = close(cs)
    /\ UNCHANGED <<csRet, retryVars, fnVars, procVars>>

\* storage_task is over with an exception: await storage_task raises it, the
\* finally clause finds the task done, the with block closes the store.
DlStorageFailed ==
    /\ dl.main = "await_storage"
    /\ dl.cons = "failed"
    /\ dl' = [dl EXCEPT !.main = "failed"]
    /\ cs' = close(cs)
    /\ UNCHANGED <<csRet, retryVars, fnVars, procVars>>

\* An except clause that awaits storage_task without putting STOP.
ExceptCancelledNoStop(d) == [d EXCEPT !.main = "cancel_wait"]

\* except asyncio.CancelledError, up to its first suspension.
ExceptCancelled(d) ==
    IF Len(d.q) >= MaxQueue THEN [d EXCEPT !.main = "cancel_putstop"]
    ELSE [QPut(d, "STOP") EXCEPT !.main = "cancel_wait"]

\* The task running download_book is cancelled where it waits.
\*   in _dl_fix_chapter_ids: CancelledError leaves download_book;
\*   in gather: the producers that are not over are cancelled with it;
\*   in put(STOP): the put is given up;
\*   in await storage_task: the cancellation goes to storage_task, which the
\*     call awaits: a storage_worker that is not over ends in save_q.get.
DlCancel ==
    /\ ~dl.cancelled
    /\ dl.main \in {"repair", "gather", "putstop", "await_storage"}
    /\ LET c == [dl EXCEPT !.cancelled = TRUE]
       IN CASE dl.main = "repair" ->
                 dl' = [c EXCEPT !.main = "raised"] /\ cs' = close(cs)
            [] dl.main = "gather" ->
                 /\ dl' = ExceptCancelled(
                            [c EXCEPT !.prod = [k \in 1..Len(dl.prod) |->
                                                  IF dl.prod[k] = "done" THEN "done"
                                                  ELSE "cancelled"]])
                 /\ cs' = cs
            [] dl.main = "putstop" ->
                 dl' = ExceptCancelled(c) /\ cs' = cs
            [] dl.main = "await_storage" ->
                 /\ dl' = ExceptCancelled(
                            [c EXCEPT !.cons = IF @ \in {"done", "failed"} THEN @
                                               ELSE "cancelled"])
                 /\ cs' = cs
    /\ UNCHANGED <<csRet, retryVars, fnVars, procVars>>

DlCancelPutStop ==
    /\ dl.main = "cancel_putstop"
    /\ Len(dl.q) < MaxQueue
    /\ dl' = [QPut(dl, "STOP") EXCEPT !.main = "cancel_wait"]
    /\ UNCHANGED <<storeVars, retryVars, fnVars, procVars>>

\* wait_for(storage_task) is over: the store is closed, CancelledError leaves
\* download_book (the exception of storage_task, if it ended with one).
DlCancelWaited ==
    /\ dl.main = "cancel_wait"
    /\ dl.cons \in {"done", "cancelled", "failed"}
    /\ dl' = [dl EXCEPT !.main = IF dl.cons = "failed" THEN "failed" ELSE "raised"]
    /\ cs' = close(cs)
    /\ UNCHANGED <<csRet, retryVars, fnVars, procVars>>

\* wait_for(storage_task, timeout=10) times out on a storage_worker whose
\* ui.on_progress call has not returned: storage_task is cancelled and
\* awaited, the store is closed, CancelledError leaves download_book.
DlCancelTimeout ==
    /\ dl.main = "cancel_wait"
    /\ dl.cons \in {"on_progress", "on_progress_last"}
    /\ dl' = [dl EXCEPT !.main = "raised", !.cons = "cancelled"]
    /\ cs' = close(cs)
    /\ UNCHANGED <<csRet, retryVars, fnVars, procVars>>

NextDl ==
    \/ DlFixChapterId
    \/ DlPlan
    \/ \E i \in 1..Len(dl.prod) : DlProducerEnters(i)
    \/ \E i \in 1..Len(dl.prod) : DlFetched(i)
    \/ \E i \in 1..Len(dl.prod) : DlPut(i)
    \/ \E i \in 1..Len(dl.prod) : DlSlept(i)
    \/ \E i \in 1..Len(dl.prod) : DlProducerRaises(i)
    \/ DlStorageWorker
    \/ DlProgressPending
    \/ DlProgressReturns
    \/ DlProgressRaises
    \/ DlGathered
    \/ DlPutStop
    \/ DlStorageDone
    \/ DlStorageFailed
    \/ DlCancel
    \/ DlCancelPutStop
    \/ DlCancelWaited
    \/ DlCancelTimeout

SpecDl == InitDl /\ [][NextDl]_vars

\* existing_ids() of the raw store opened after the call.
StoredIds == existing_ids(connect(NewStorage(cs.disk)))

\* download_book returned with a plan, every get_chapter having returned a
\* chapter and every upsert having returned.
ReturnedClean ==
    dl.main = "returned" /\ Len(dl.plan) > 0 /\ ~dl.fetchFailed /\ ~dl.writeFailed

\* C1 as stated: when download_book returns, every fetch having succeeded and
\* no write having failed, the raw store's existing_ids() is the set of plan
\* ids, and the last on_progress call reports done = total.
CompletenessExact ==
    ReturnedClean
        => /\ StoredIds = Range(dl.plan)
           /\ Len(dl.progress) > 0
           /\ dl.progress[Len(dl.progress)].done = Len(dl.plan)

\* C1, amended: the raw store's existing_ids() holds every plan id, and nothing
\* but the plan ids, the ids stored before the call and the ids id repair
\* upserted; the last on_progress call reports done = total.
Completeness ==
    ReturnedClean
        => /\ Range(dl.plan) \subseteq StoredIds
           /\ StoredIds = Range(dl.plan) \cup DOMAIN dl.store0 \cup dl.repaired
           /\ Len(dl.progress) > 0
           /\ dl.progress[Len(dl.progress)].done = Len(dl.plan)

\* A call that returned after it fetched two chapters and flushed them as one
\* batch, its last on_progress call reporting the whole plan.
CompletenessWitness ==
    /\ ReturnedClean
    /\ \E b \in dl.okBatches : Len(b) = 2
    /\ dl.progress[Len(dl.progress)].done = Len(dl.plan)
    /\ Range(dl.plan) \subseteq StoredIds

\* C2: after a cancelled download_book, the rows the call added to the raw
\* store are rows of batches flushed whole (or rows id repair wrote), every
\* flushed batch is there whole, and every id the call added is a plan id.
CancelLeavesWholeBatches ==
    dl.main = "raised"
        => LET added == DOMAIN cs.disk \ DOMAIN dl.store0
               flushed == UNION {Range(b) : b \in dl.okBatches}
           IN /\ added \subseteq flushed \cup dl.repaired
              /\ flushed \subseteq DOMAIN cs.disk
              /\ added \subseteq Range(DlPlanIds(dl.info, dl.ignore))

\* C3: when the cancellation is re-raised to the caller (no write having
\* failed), every chapter a producer put on save_q is a committed row.
CancelGrace ==
    (dl.main = "raised" /\ ~dl.writeFailed) => dl.enq \subseteq DOMAIN cs.disk

\* C9: at every on_progress call, done is at most the number of plan entries
\* whose chapter is a committed row of the raw store at that moment.
ProgressIsDurable ==
    \A k \in 1..Len(dl.progress) : dl.progress[k].done <= dl.progress[k].present

\* download_book is over: it returned, CancelledError left it, or another
\* exception did.
Exits == {"returned", "raised", "failed"}

\* storage_task is over: storage_worker returned, was cancelled, or raised.
Terminated == {"done", "cancelled", "failed"}

\* C16: in a download_book call that created storage_task, the task is over
\* whenever the call is over (returned, cancelled, or left by another
\* exception) and whenever the store is closed; a cancelled call puts STOP on
\* save_q before it waits for storage_task, and CancelledError leaves the
\* call only from that wait, with storage_task over.
ConsumerCleanup ==
    [][/\ (dl'.main \in Exits /\ Len(dl'.plan) > 0) => dl'.cons \in Terminated
       /\ (~cs'.conn /\ Len(dl'.plan) > 0) => dl'.cons \in Terminated
       /\ (dl.main # "cancel_wait" /\ dl'.main = "cancel_wait")
            => (dl'.cancelled /\ dl'.q = Append(dl.q, "STOP"))
       /\ (dl.main # "raised" /\ dl'.main = "raised" /\ Len(dl.plan) > 0)
            => (dl.main = "cancel_wait" /\ dl.cancelled)]_vars

\* A call cancelled in gather whose storage_worker took the STOP of the except
\* clause and returned before CancelledError left the call.
ConsumerCleanupWitness ==
    /\ dl.main = "raised" /\ dl.cancelled
    /\ dl.cons = "done"
    /\ dl.enq # {}
    /\ \E k \in 1..Len(dl.prod) : dl.prod[k] = "cancelled"

\* The producers inside `async with sem`.
InsideSem == {k \in 1..Len(dl.prod) : dl.prod[k] \in {"fetching", "putting", "sleeping"}}

\* C17: at every moment of download_book at most `workers` producers, and
\* workers is at least 1, are inside the section sem guards (fetching, putting
\* on save_q, sleeping), whatever the length of the plan, and save_q holds at
\* most its maxsize of items.
BoundedConcurrency ==
    /\ dl.workers >= 1
    /\ Cardinality(InsideSem) <= dl.workers
    /\ Len(dl.q) <= MaxQueue

\* Every permit is taken, a producer waits for one, and save_q is full.
BoundedConcurrencyWitness ==
    /\ Cardinality(InsideSem) = dl.workers
    /\ \E k \in 1..Len(dl.prod) : dl.prod[k] = "waiting"
    /\ Len(dl.q) = MaxQueue

\* The chapters save_q holds, in queue order.
QueuedChapters == SelectSeq(dl.q, LAMBDA item : item # "STOP")

\* The place of a chapter id in the order of the puts (its first put).
Arrival(id) == CHOOSE k \in 1..Len(dl.enqSeq) :
                  dl.enqSeq[k] = id /\ \A j \in 1..(k - 1) : dl.enqSeq[j] # id

\* The step writes to the store: a row changes under an open connection, or
\* the committed rows change.
StoreWritten ==
    \/ cs'.disk # cs.disk
    \/ cs.conn /\ cs'.conn /\ cs'.rows # cs.rows

\* C18: once storage_task and the producers exist, the store is written only
\* in a step of storage_worker, which takes items off the head of save_q; the
\* chapters on save_q are the last ones put, in the order of the puts; and a
\* chapter that becomes a committed row was not put before a chapter whose row
\* the worker committed in an earlier step (need_refetch is False for all).
SingleWriterInOrder ==
    [][Len(dl.plan) > 0
         => /\ StoreWritten
                 => /\ dl.cons = "waiting"
                    /\ Len(dl'.q) < Len(dl.q)
                    /\ dl'.enqSeq = dl.enqSeq
            /\ \E n \in 0..Len(dl'.enqSeq) :
                 QueuedChapters' = SubSeq(dl'.enqSeq, n + 1, Len(dl'.enqSeq))
            /\ \A y \in (DOMAIN cs'.disk \ DOMAIN cs.disk) \cap Range(dl.enqSeq) :
                 \A x \in ((DOMAIN cs.disk \ DOMAIN dl.store0) \ dl.repaired)
                            \cap Range(dl.enqSeq) :
                     Arrival(x) < Arrival(y)]_vars

\* Two chapters were put on save_q, b after a, and committed by two flushes.
SingleWriterInOrderWitness ==
    /\ dl.enqSeq = <<"a", "b">>
    /\ dl.storage_batch_size = 1
    /\ {<<"a">>, <<"b">>} \subseteq dl.okBatches
    /\ {"a", "b"} \subseteq DOMAIN cs.disk \ DOMAIN dl.store0

\* ui.on_progress raised in a task of the call.
UiRaised ==
    \/ dl.cons = "failed"
    \/ \E k \in 1..Len(dl.prod) : dl.prod[k] = "failed"

\* A call in which get_chapter returned None for a chapter is over only by
\* returning (unless it was cancelled or its ui raised); when it returns, no
\* write having failed, every producer is over, every chapter a get_chapter
\* call of a producer returned is a committed row, and so is every plan
\* chapter that was clean in the store before the call.
StoredDespiteFailures ==
    (dl.main \in Exits /\ dl.fetchFailed /\ ~dl.cancelled /\ ~UiRaised)
        => /\ dl.main = "returned"
           /\ ~dl.writeFailed
                => /\ dl.enq \subseteq DOMAIN cs.disk
                   /\ \A k \in 1..Len(dl.plan) :
                        dl.prod[k] = "done"
                   /\ \A id \in Range(dl.plan) :
                        (id \in DOMAIN dl.store0 /\ ~dl.store0[id].need_refetch)
                            => id \in DOMAIN cs.disk

\* A task of the call can run: download_book itself, a producer, or
\* storage_worker.
CanGoOn ==
    \/ dl.main = "repair"
    \/ dl.main = "gather" /\ \A k \in 1..Len(dl.prod) : dl.prod[k] = "done"
    \/ dl.main = "putstop" /\ Len(dl.q) < MaxQueue
    \/ dl.main = "await_storage" /\ dl.cons = "done"
    \/ \E k \in 1..Len(dl.prod) :
          \/ dl.prod[k] \in {"fetching", "sleeping"}
          \/ dl.prod[k] = "putting" /\ Len(dl.q) < MaxQueue
          \/ dl.prod[k] = "waiting" /\ Cardinality(InsideSem) < dl.workers
    \/ dl.cons = "waiting" /\ Len(dl.q) > 0
    \/ dl.cons \in {"on_progress", "on_progress_last"}

\* C19: a chapter whose fetch fails (get_chapter returns None: retries used
\* up, or a content error) does not make download_book fail: unless the call
\* is cancelled or its ui raises, it is never stuck before it is over, it is
\* over only by returning, and when it returns every other plan chapter whose
\* fetch succeeded is stored.
ChapterFailuresTolerated ==
    /\ StoredDespiteFailures
    /\ (dl.fetchFailed /\ ~dl.cancelled /\ ~UiRaised /\ dl.main \notin Exits)
            => CanGoOn

\* A call returned with one plan chapter stored and another, whose fetch
\* failed, not.
ChapterFailuresToleratedWitness ==
    /\ dl.main = "returned" /\ dl.fetchFailed /\ ~dl.writeFailed
    /\ dl.enq # {}
    /\ dl.enq \subseteq DOMAIN cs.disk
    /\ \E id \in Range(dl.plan) : id \notin DOMAIN cs.disk

\* The producer of plan[i] gets sem in this step and runs to its first await.
ProducerEntered(i) ==
    /\ i \in 1..Len(dl'.prod)
    /\ IF i \in 1..Len(dl.prod) THEN dl.prod[i] = "waiting" ELSE TRUE
    /\ dl'.prod[i] \in {"done", "fetching"}

\* C37: a producer whose plan id the store holds with need_refetch false, with
\* chapter caching on, is over without a fetch, counted as done, and the row
\* stays as it is; a producer whose plan id the store lacks, or holds with
\* need_refetch true, fetches.
CachedNotRefetched ==
    [][\A i \in 1..Len(dl'.plan) :
          ProducerEntered(i)
            => LET cid == dl'.plan[i]
                   held == IF cid \in DOMAIN cs.rows THEN ~cs.rows[cid].need_refetch
                           ELSE FALSE IN
               /\ (dl.cache_chapter /\ held)
                    => /\ dl'.prod[i] = "done"
                       /\ dl'.done > dl.done
                       /\ cs'.rows = cs.rows /\ cs'.disk = cs.disk
               /\ ~held => dl'.prod[i] = "fetching"]_vars

\* The chapters in a sequence of save_q items.
ChapterItems(q) == SelectSeq(q, LAMBDA x : x # "STOP")

\* The chapters the two batches hold.
Batched(d) == Len(d.batches[FALSE]) + Len(d.batches[TRUE])

RECURSIVE FirstFlush(_)
\* The batch of the first upsert_chapters call storage_worker makes from save_q.get()
\* on: the bucket that an item fills, or after STOP the first bucket that is
\* not empty.
FirstFlush(d) ==
    IF Len(d.q) = 0 THEN <<>>
    ELSE LET item == Head(d.q) IN
         IF item = "STOP"
         THEN (IF Len(d.batches[FALSE]) > 0 THEN d.batches[FALSE] ELSE d.batches[TRUE])
         ELSE LET need == _dl_check_refetch(item)
                  put == [d EXCEPT !.q = Tail(@), !.batches[need] = Append(@, item)]
              IN IF Len(put.batches[need]) >= d.storage_batch_size
                 THEN put.batches[need]
                 ELSE FirstFlush(put)

\* storage_worker takes items off save_q in this step.
ConsumerStep == dl.cons = "waiting" /\ Len(dl'.q) < Len(dl.q)

\* The chapters storage_worker took in this step that it neither keeps in a
\* batch nor counted: the chapters of a batch whose upsert raised.
Dropped ==
    Batched(dl) + Len(ChapterItems(dl.q)) - Len(ChapterItems(dl'.q))
        - Batched(dl') - (dl'.done - dl.done)

\* A storage_worker step in which an upsert_chapters call raised.
FlushFailed == ConsumerStep /\ Dropped > 0

\* The batch is dropped and not counted, and nothing else is.
FailedBatchDiscarded == [][FlushFailed => Dropped = Len(FirstFlush(dl))]_vars

\* storage_worker goes on to the end of the queue, download_book is where it was.
ConsumerGoesOn ==
    [][FlushFailed
         => /\ Len(dl'.q) = 0
            /\ dl'.cons \in {"waiting", "done", "on_progress", "on_progress_last"}
            /\ dl'.main = dl.main]_vars

\* download_book fails only by what a ui raised.
FailsOnlyByUi == [](dl.main = "failed" => UiRaised)

\* The store does not report a chapter of the failed batch that it did not
\* hold before and that no later batch of the step wrote.
FailedBatchNotReported ==
    [][FlushFailed
         => \A id \in Range(FirstFlush(dl)) :
               exists(cs', id)
                 => \/ exists(cs, id)
                    \/ \E b \in dl'.okBatches \ dl.okBatches : id \in Range(b)]_vars

\* C34: when upsert_chapters raises on a batch, storage_worker drops the batch,
\* does not count it, and goes on consuming save_q; download_book does not
\* fail because of it; and the store does not report the chapters of the
\* failed batch as present afterwards.
FlushFailureContained ==
    /\ FailedBatchDiscarded
    /\ ConsumerGoesOn
    /\ FailsOnlyByUi
    /\ FailedBatchNotReported

\* A download_book call that is not cancelled and whose ui returns: the event
\* loop runs a task that can run, so a step that stays possible is taken.
NextDlRun ==
    \/ DlFixChapterId
    \/ DlPlan
    \/ \E i \in 1..Len(dl.prod) : DlProducerEnters(i)
    \/ \E i \in 1..Len(dl.prod) : DlFetched(i)
    \/ \E i \in 1..Len(dl.prod) : DlPut(i)
    \/ \E i \in 1..Len(dl.prod) : DlSlept(i)
    \/ DlProgressReturns
    \/ DlGathered
    \/ DlPutStop
    \/ DlStorageDone
    \/ DlStorageWorker
    \/ DlProgressPending

SpecDlLive == InitDl /\ [][NextDlRun]_vars /\ WF_vars(NextDlRun)

\* download_book returned, and if it had a plan every producer is over, STOP
\* was taken off save_q, and storage_worker is over with both batches flushed.
ReturnedAllOver ==
    /\ dl.main = "returned"
    /\ Len(dl.plan) > 0
         => /\ \A k \in 1..Len(dl.prod) : dl.prod[k] = "done"
            /\ dl.q = <<>>
            /\ dl.cons = "done"
            /\ dl.batches = [need \in BOOLEAN |-> <<>>]

InitRetry ==
    /\ IdleStore
    /\ IdleProc
    /\ IdleDl
    /\ IdleFn
    /\ \E id \in Ids, r \in 0..MaxRetry, b \in {1, 2} : gc = GcCall(id, r, b)

RetryAttempt ==
    /\ gc.pc = "try"
    /\ \E outcome \in Outcomes : gc' = GcAttempt(gc, outcome)
    /\ UNCHANGED <<storeVars, procVars, dlVars, fnVars>>

RetryWake ==
    /\ gc.pc = "backoff"
    /\ gc' = GcWake(gc)
    /\ UNCHANGED <<storeVars, procVars, dlVars, fnVars>>

NextRetry == RetryAttempt \/ RetryWake

SpecRetry == InitRetry /\ [][NextRetry]_vars

AllTransient(log) == \A k \in 1..Len(log) : log[k] = "error"

DependsLists == {<<>>, <<"s1">>, <<"s2">>}

Hashes == {HashConfig(o) : o \in Options}

ExecutedRecords == [depends_on : DependsLists, config_hash : Hashes]

\* The ledgers: each stage has no executed record, or any of the records.
Ledgers ==
    UNION {[recorded -> ExecutedRecords] : recorded \in SUBSET Stages}

InitInc ==
    /\ IdleStore
    /\ IdleRetry
    /\ IdleProc
    /\ IdleDl
    /\ \E executed \in Ledgers, files \in SUBSET Stages, name \in Stages,
          overwrite \in BOOLEAN, options \in Options, completed \in DependsLists :
        fn = [op |-> "_pc_is_incremental", pc |-> "called",
              meta |-> [pipeline |-> <<>>, executed |-> executed],
              files |-> files,
              pconf |-> ProcessorConfig(name, overwrite, options),
              completed_stages |-> completed,
              out |-> FALSE]

IncReturns ==
    /\ fn.op = "_pc_is_incremental" /\ fn.pc = "called"
    /\ fn' = [fn EXCEPT !.pc = "returned",
                        !.out = _pc_is_incremental(fn.meta, fn.files, fn.pconf,
                                                   fn.completed_stages)]
    /\ UNCHANGED <<storeVars, retryVars, procVars, dlVars>>

NextInc == IncReturns

SpecInc == InitInc /\ [][NextInc]_vars

\* C11: _pc_is_incremental returns true if and only if overwrite is false, the
\* ledger has an executed record for the stage, the stage's output file
\* exists, the record's config_hash is the hash of the current options, and
\* the record's depends_on is the list of stages completed earlier in the run.
IncrementalIffFive ==
    (fn.op = "_pc_is_incremental" /\ fn.pc = "returned")
        => (fn.out <=>
               /\ ~fn.pconf.overwrite
               /\ fn.pconf.name \in DOMAIN fn.meta.executed
               /\ fn.pconf.name \in fn.files
               /\ fn.meta.executed[fn.pconf.name].config_hash = HashConfig(fn.pconf.options)
               /\ fn.meta.executed[fn.pconf.name].depends_on = fn.completed_stages)

\* A call that returned true for a stage with an upstream stage.
IncrementalIffFiveWitness ==
    /\ fn.op = "_pc_is_incremental" /\ fn.pc = "returned"
    /\ fn.out
    /\ fn.completed_stages = <<"s1">>
    /\ fn.pconf.name = "s2"

\* ----------------------------------------------------------------- SpecPlan
\* One call of _extract_chapter_ids: on a book of two volumes, one with an id
\* listed twice, one with a chapter without chapterId and an empty volume, and
\* one whose ids are out of alphabetical order; with any of its chapters
\* inaccessible; for any start_id and end_id (not given, in the book, or not
\* in it), any ignore set and either value of fetch_inaccessible.
PlanIds == {"a", "b", "c", "d", "e"}

VolumeShapes ==
    {<< <<"a", "b", "c">>, <<"d", "e">> >>,
     << <<"a", "b">>, <<"a", "c">> >>,
     << <<"a", "", "b">>, <<>>, <<"c">> >>,
     << <<"c", "a">>, <<"b", "c">> >>}

InaccessibleSets == SUBSET {"b", "d"}

IgnoreSets == SUBSET {"a", "c"}

\* The volumes of a shape, the chapters of `inaccessible` marked so.
Volumes(shape, inaccessible) ==
    [v \in 1..Len(shape) |->
        [k \in 1..Len(shape[v]) |->
            [chapterId |-> shape[v][k], accessible |-> shape[v][k] \notin inaccessible]]]

InitPlan ==
    /\ IdleStore
    /\ IdleRetry
    /\ IdleProc
    /\ IdleDl
    /\ \E shape \in VolumeShapes, inaccessible \in InaccessibleSets,
          start_id \in PlanIds \cup {None}, end_id \in PlanIds \cup {None},
          ignore \in IgnoreSets, fetch_inaccessible \in BOOLEAN :
        fn = [op |-> "_extract_chapter_ids", pc |-> "called",
              vols |-> Volumes(shape, inaccessible),
              start_id |-> start_id, end_id |-> end_id, ignore |-> ignore,
              fetch_inaccessible |-> fetch_inaccessible,
              out |-> <<>>]

PlanReturns ==
    /\ fn.op = "_extract_chapter_ids" /\ fn.pc = "called"
    /\ fn' = [fn EXCEPT !.pc = "returned",
                        !.out = _extract_chapter_ids(fn.vols, fn.start_id, fn.end_id,
                                                     fn.ignore, fn.fetch_inaccessible)]
    /\ UNCHANGED <<storeVars, retryVars, procVars, dlVars>>

NextPlan == PlanReturns

SpecPlan == InitPlan /\ [][NextPlan]_vars

\* The chapters of the book that have an id, in declared order.
Declared(vols) ==
    SelectSeq(VolumeChapters(vols, 1), LAMBDA chap : chap.chapterId # "")

\* The first place of id in chaps at or after `from`; 0 if there is none.
FirstAt(chaps, id, from) ==
    IF \E k \in from..Len(chaps) : chaps[k].chapterId = id
    THEN CHOOSE k \in from..Len(chaps) :
            /\ chaps[k].chapterId = id
            /\ \A j \in from..(k - 1) : chaps[j].chapterId # id
    ELSE 0

\* The plan as the range and the filters define it: the declared chapters
\* from the first occurrence of start_id (from the first chapter if it is not
\* given; none if it does not occur) through the first occurrence of end_id
\* from there on (through the last chapter if it is not given or does not
\* occur), without the ignored ids and, unless fetch_inaccessible is set, the
\* inaccessible chapters.
ExpectedPlan ==
    LET chaps == Declared(fn.vols)
        first == IF fn.start_id = None THEN 1 ELSE FirstAt(chaps, fn.start_id, 1)
        found == IF fn.end_id = None \/ first = 0 THEN 0
                 ELSE FirstAt(chaps, fn.end_id, first)
        last == IF found = 0 THEN Len(chaps) ELSE found
        window == IF first = 0 THEN <<>> ELSE SubSeq(chaps, first, last)
        kept == SelectSeq(window,
                          LAMBDA chap : /\ chap.chapterId \notin fn.ignore
                                        /\ chap.accessible \/ fn.fetch_inaccessible)
    IN [k \in 1..Len(kept) |-> kept[k].chapterId]

\* The call of the example: volumes [[a, b, c], [d, e]], every chapter
\* accessible, start_id b, end_id d, ignore_ids {c}.
ExampleCall ==
    /\ fn.vols = Volumes(<< <<"a", "b", "c">>, <<"d", "e">> >>, {})
    /\ fn.start_id = "b" /\ fn.end_id = "d" /\ fn.ignore = {"c"}

\* C20: _extract_chapter_ids returns, in declared volume and chapter order and
\* with repeated ids kept, exactly the ids from the first occurrence of
\* start_id (from the beginning if it is not given) through end_id (to the end
\* if it is not given), without the ids of ignore_ids and without the chapters
\* marked inaccessible unless fetch_inaccessible is set; for volumes
\* [[a, b, c], [d, e]], start_id b, end_id d and ignore_ids {c} it returns
\* [b, d].
PlanCorrect ==
    (fn.op = "_extract_chapter_ids" /\ fn.pc = "returned")
        => /\ fn.out = ExpectedPlan
           /\ ExampleCall => fn.out = <<"b", "d">>

\* The call of the example has returned [b, d].
PlanCorrectWitness ==
    /\ fn.op = "_extract_chapter_ids" /\ fn.pc = "returned"
    /\ ExampleCall
    /\ fn.out = <<"b", "d">>

\* ------------------------------------------------------------------ SpecOps
\* One ChapterStorage call, with its arguments, on a store the program can
\* hold; the same call may then be made again on the store it left.
\*   fn.st     the store before the first call
\*   fn.n      the calls made
\*   fn.first  the result of the first call
\*   fn.res    the result of the last call

MaxRepeat == 3

RowMaps ==
    UNION {[S -> {Row(ChapterDict("", c, ""), need) : c \in Contents, need \in BOOLEAN}] :
              S \in SUBSET StoreIds}

FlagMaps == UNION {[S -> BOOLEAN] : S \in SUBSET StoreIds}

\* The stores the calls are made on. A store that is not connected sees the
\* committed rows and holds any flags (none after __init__ and close(); those
\* of a failed upsert_chapters otherwise). A connected store has a flag for
\* every row it sees, and may have written one row in a transaction that is
\* still open.
ClosedStores ==
    {[conn |-> FALSE, flags |-> flags, rows |-> disk, disk |-> disk] :
        disk \in RowMaps, flags \in FlagMaps}

ConnectedStores ==
    {st \in UNION {{[conn |-> TRUE, flags |-> flags, rows |-> rows, disk |-> disk] :
                       rows \in {disk, Put(disk, "b", Row(ChapterDict("b", 1, ""), TRUE))},
                       flags \in FlagMaps} : disk \in RowMaps} :
        DOMAIN st.rows \subseteq DOMAIN st.flags}

OpsCall(op, id, ids, data, need) ==
    [op |-> op, id |-> id, ids |-> ids, data |-> data, need |-> need]

\* The calls, each with its arguments; the arguments a call does not take are
\* left at a fixed value.
OpsCalls ==
    LET none == ChapterDict("a", 1, "") IN
    {OpsCall(op, "a", <<>>, none, FALSE) :
        op \in {"connect", "close", "existing_ids", "clean_ids", "dirty_ids"}}
    \cup {OpsCall(op, id, <<>>, none, FALSE) :
            op \in {"exists", "need_refetch", "get_chapter", "delete_chapter"},
            id \in StoreIds}
    \cup {OpsCall(op, "a", ids, none, FALSE) :
            op \in {"get_chapters", "delete_chapters"}, ids \in IdLists}
    \cup {OpsCall(op, data.id, <<>>, data, need) :
            op \in {"upsert_chapter", "with"}, data \in Chapters, need \in BOOLEAN}
    \cup {OpsCall("upsert_chapters", "a", ids, ChapterDict("a", c, ""), need) :
            ids \in IdLists, c \in Contents, need \in BOOLEAN}

\* The faults the call c can meet.
OpsFaults(c) ==
    CASE c.op \in {"upsert_chapter", "with"} -> Faults(1)
      [] c.op = "upsert_chapters" -> Faults(Len(c.ids))
      [] c.op \in {"delete_chapter", "delete_chapters"} -> {NoFault, Fault("exec", 1)}
      [] OTHER -> {NoFault}

\* with ChapterStorage(path) as store: store.upsert_chapter(data, need)
\* __enter__ connects, __exit__ closes and lets the exception of the body pass.
with_block(st, data, need, fault) ==
    LET body == upsert_chapter(connect(st), data, need, fault) IN
    Result(close(body.st), body.raised, body.value)

\* The call c made on the store st.
Apply(st, c, fault) ==
    CASE c.op = "connect" -> Result(connect(st), FALSE, "none")
      [] c.op = "close" -> Result(close(st), FALSE, "none")
      [] c.op = "with" -> with_block(st, c.data, c.need, fault)
      [] c.op = "exists" -> Result(st, FALSE, exists(st, c.id))
      [] c.op = "need_refetch" -> Result(st, FALSE, need_refetch(st, c.id))
      [] c.op = "existing_ids" -> Result(st, FALSE, existing_ids(st))
      [] c.op = "clean_ids" -> Result(st, FALSE, clean_ids(st))
      [] c.op = "dirty_ids" -> Result(st, FALSE, dirty_ids(st))
      [] c.op = "upsert_chapter" -> upsert_chapter(st, c.data, c.need, fault)
      [] c.op = "upsert_chapters" ->
            upsert_chapters(st, [k \in 1..Len(c.ids) |->
                                    ChapterDict(c.ids[k], c.data.content, "")],
                            c.need, fault)
      [] c.op = "get_chapter" -> get_chapter(st, c.id)
      [] c.op = "get_chapters" -> get_chapters(st, c.ids)
      [] c.op = "delete_chapter" -> delete_chapter(st, c.id, fault)
      [] c.op = "delete_chapters" -> delete_chapters(st, c.ids, fault)

InitOps ==
    /\ IdleStore
    /\ IdleRetry
    /\ IdleProc
    /\ IdleDl
    /\ \E st \in ClosedStores \cup ConnectedStores, c \in OpsCalls :
        fn = [op |-> "storage", pc |-> "called", st |-> st, call |-> c, n |-> 0,
              first |-> Result(st, FALSE, "none"), res |-> Result(st, FALSE, "none")]

OpsReturns ==
    /\ fn.op = "storage" /\ fn.pc = "called"
    /\ \E fault \in OpsFaults(fn.call) :
        LET res == Apply(fn.st, fn.call, fault) IN
        fn' = [fn EXCEPT !.pc = "returned", !.n = 1, !.first = res, !.res = res]
    /\ UNCHANGED <<storeVars, retryVars, procVars, dlVars>>

\* The same call once more, on the store the last one left.
OpsRepeats ==
    /\ fn.op = "storage" /\ fn.pc = "returned"
    /\ ~fn.res.raised
    /\ fn.n < MaxRepeat
    /\ \E fault \in OpsFaults(fn.call) :
        fn' = [fn EXCEPT !.n = fn.n + 1, !.res = Apply(fn.res.st, fn.call, fault)]
    /\ UNCHANGED <<storeVars, retryVars, procVars, dlVars>>

NextOps == OpsReturns \/ OpsRepeats

SpecOps == InitOps /\ [][NextOps]_vars

\* A storage call op has returned, its first time.
Returned(op) ==
    /\ fn.op = "storage" /\ fn.pc = "returned" /\ fn.n = 1
    /\ fn.call.op = op

\* C23: get_chapters(ids) on a connected store returns a map whose keys are
\* exactly the requested ids, with the chapter of each id that has a row and
\* null for each id that has none, whatever the rows and the list (repeated
\* ids included); the empty list gives the empty map.
BatchMapComplete ==
    (Returned("get_chapters") /\ (fn.st.conn \/ Len(fn.call.ids) = 0))
        => /\ ~fn.res.raised
           /\ DOMAIN fn.res.value = Range(fn.call.ids)
           /\ \A i \in Range(fn.call.ids) :
                IF i \in DOMAIN fn.st.rows
                THEN fn.res.value[i]
                        = ChapterDict(i, fn.st.rows[i].content, fn.st.rows[i].next)
                ELSE fn.res.value[i] = None
           /\ Len(fn.call.ids) = 0 => fn.res.value = EmptyMap
           /\ fn.res.st = fn.st

\* get_chapters([a, b, a]-like list: a repeated id, one id stored and one not)
\* has returned.
BatchMapCompleteWitness ==
    /\ Returned("get_chapters")
    /\ fn.st.conn
    /\ fn.call.ids = <<"a", "a">>
    /\ "a" \in DOMAIN fn.st.rows
    /\ "b" \notin DOMAIN fn.st.rows
    /\ DOMAIN fn.res.value = {"a"}

\* upsert_chapter has returned, for the fn.n-th time in a row.
Upserted ==
    /\ fn.op = "storage" /\ fn.pc = "returned"
    /\ fn.call.op = "upsert_chapter"
    /\ ~fn.res.raised

\* C24: after upsert_chapter(chapter, need) was made any number of times in a
\* row, the store holds one row for the id, the chapter's with the flag passed
\* (whatever row the id had before: the whole row is replaced), the other rows
\* are as they were, existing_ids() contains the id, get_chapter(id) returns
\* the chapter, and the store is as the first call left it.
IdempotentUpsert ==
    Upserted
        => LET id == fn.call.data.id
               st == fn.res.st IN
           /\ st.rows = Put(fn.st.rows, id, Row(fn.call.data, fn.call.need))
           /\ Cardinality(DOMAIN st.rows) = Cardinality(DOMAIN fn.st.rows \cup {id})
           /\ id \in existing_ids(st)
           /\ need_refetch(st, id) = fn.call.need
           /\ get_chapter(st, id).value = fn.call.data
           /\ st = fn.first.st

\* The call was made MaxRepeat times on a store that held the id with another
\* content and flag.
IdempotentUpsertWitness ==
    /\ Upserted
    /\ fn.n = MaxRepeat
    /\ fn.call.data.id \in DOMAIN fn.st.rows
    /\ fn.st.rows[fn.call.data.id].content # fn.call.data.content
    /\ fn.st.rows[fn.call.data.id].need_refetch # fn.call.need
    /\ fn.res.st.rows[fn.call.data.id] = Row(fn.call.data, fn.call.need)

\* The calls that open or close the storage.
LifecycleOps == {"connect", "close", "with"}

\* C25: every operation called on a storage that is not connected (never
\* connected, or closed) raises instead of returning a result; connect, close
\* and the with block, which open and close it, are not meant.
FailFastUnconnected ==
    (fn.op = "storage" /\ fn.pc = "returned" /\ fn.n = 1 /\ ~fn.st.conn
        /\ fn.call.op \notin LifecycleOps)
        => fn.res.raised

\* The delete op has returned, for the fn.n-th time in a row.
Deleted(op) ==
    /\ fn.op = "storage" /\ fn.pc = "returned"
    /\ fn.call.op = op
    /\ ~fn.res.raised

\* What a delete of ids leaves of the store st.
AfterDelete(st, ids) ==
    /\ fn.res.st.rows = Remove(st.rows, ids)
    /\ fn.res.st.flags = Remove(st.flags, ids)
    /\ fn.res.st.conn = st.conn
    /\ ids \cap (DOMAIN st.rows \cup DOMAIN st.flags) = {}
            => (fn.res.st.rows = st.rows /\ fn.res.st.flags = st.flags)

\* C26: delete_chapter(id) returns true exactly when the id had a row, and
\* delete_chapters(ids) returns the number of distinct requested ids that had
\* one; afterwards the ids have neither a row nor an index entry, the other
\* rows and entries are as before, and nothing changes when no id was there:
\* the same delete made again returns false, respectively 0, and leaves the
\* store as it was.
DeleteSemantics ==
    /\ Deleted("delete_chapter")
        => /\ AfterDelete(fn.st, {fn.call.id})
           /\ fn.first.value = (fn.call.id \in DOMAIN fn.st.rows)
           /\ fn.n > 1 => (fn.res.value = FALSE /\ fn.res.st = fn.first.st)
    /\ Deleted("delete_chapters")
        => /\ AfterDelete(fn.st, Range(fn.call.ids))
           /\ fn.first.value = Cardinality(Range(fn.call.ids) \cap DOMAIN fn.st.rows)
           /\ fn.n > 1 => (fn.res.value = 0 /\ fn.res.st = fn.first.st)

\* delete_chapters([a, a]) returned 1 on a store that held a and b, and 0
\* when it was made again.
DeleteSemanticsWitness ==
    /\ Deleted("delete_chapters")
    /\ fn.call.ids = <<"a", "a">>
    /\ DOMAIN fn.st.rows = {"a", "b"}
    /\ fn.first.value = 1
    /\ fn.n = 2 /\ fn.res.value = 0
    /\ DOMAIN fn.res.st.rows = {"b"}

\* C27: connect() on a connected store leaves the connection and the index as
\* they are; close() on a store that is not connected raises nothing and
\* leaves it closed with an empty index; and a with block leaves the store
\* closed with an empty index on every exit, the exception of its body
\* included.
LifecycleIdempotent ==
    /\ (Returned("connect") /\ fn.st.conn)
        => (~fn.res.raised /\ fn.res.st = fn.st)
    /\ (Returned("close") /\ ~fn.st.conn)
        => (~fn.res.raised /\ ~fn.res.st.conn /\ existing_ids(fn.res.st) = {})
    /\ Returned("with")
        => (~fn.res.st.conn /\ existing_ids(fn.res.st) = {})

\* ----------------------------------------------------------------- SpecRate
\* One TokenBucketRateLimiter and the tasks that call wait() on it. Tokens are
\* counted in units of 1 / TokenScale token and time in ticks; rate is in
\* units per tick.
\*   fn.tokens   self.tokens
\*   fn.elapsed  time.monotonic() - self.timestamp
\*   fn.tasks    per task: pc ("idle", "sleeping", "returned"), the ticks its
\*               asyncio.sleep still lasts, and whether its wait() slept
\*   fn.jitter   self.jitter_strength, in ticks
\* and what happened so far:
\*   fn.now      the ticks since the limiter was built (counted up to MaxTime)
\*   fn.returns  the wait() calls that returned (counted up to MaxReturns)

MaxWaiters == 2

Burst == 2

TokenScale == 2

Rates == {1, 2}

JitterTicks == 1

MaxTime == 4

MaxReturns == 6

RlTasks == 1..MaxWaiters

capacity == Burst * TokenScale

\* Beyond capacity ticks the refill is capped whatever the rate: elapsed is not
\* counted further.
MaxElapsed == capacity

MinOf(a, b) == IF a <= b THEN a ELSE b

MaxOf(a, b) == IF a >= b THEN a ELSE b

\* self.tokens = min(self.capacity, self.tokens + elapsed * self.rate)
Refill(tokens, elapsed, rate) == MinOf(capacity, tokens + elapsed * rate)

\* A debit that is not clamped at zero.
DebitUnclamped(tokens) == tokens - TokenScale

\* self.tokens = max(0.0, self.tokens - 1.0)
Debit(tokens) == MaxOf(0, tokens - TokenScale)

\* total_wait = max(0.0, (1.0 - self.tokens) / self.rate + jitter), in whole
\* ticks: every tick count from the wait with the jitter at its lowest to the
\* wait with the jitter at its highest.
TotalWaits(tokens, rate, jitter) ==
    LET lo == (TokenScale - tokens) \div rate
        hi == (TokenScale - tokens + rate - 1) \div rate IN
    {MaxOf(0, w) : w \in (lo - jitter)..(hi + jitter)}

\* One more wait() call has returned.
Returned1(f) == [f EXCEPT !.returns = MinOf(MaxReturns, @ + 1)]

RlTask(pc, sleep, slept) == [pc |-> pc, sleep |-> sleep, slept |-> slept]

InitRate ==
    /\ IdleStore
    /\ IdleRetry
    /\ IdleProc
    /\ IdleDl
    /\ \E rate \in Rates, jitter \in {0, JitterTicks} :
        fn = [op |-> "wait", pc |-> "running", rate |-> rate, tokens |-> capacity,
              elapsed |-> 0, tasks |-> [i \in RlTasks |-> RlTask("idle", 0, FALSE)],
              jitter |-> jitter, now |-> 0, returns |-> 0]

\* Time passes: the clock advances and the sleeps run down.
RlTick ==
    /\ fn.op = "wait"
    /\ fn' = [fn EXCEPT !.elapsed = MinOf(MaxElapsed, fn.elapsed + 1),
                        !.now = MinOf(MaxTime, fn.now + 1),
                        !.tasks = [i \in RlTasks |->
                                      [fn.tasks[i] EXCEPT
                                          !.sleep = MaxOf(0, fn.tasks[i].sleep - 1)]]]
    /\ UNCHANGED <<storeVars, retryVars, procVars, dlVars>>

\* wait(), its first block under the lock: the refill, then either the debit
\* and the return, or the wait computed and the sleep begun.
RlWait(i) ==
    /\ fn.op = "wait"
    /\ fn.tasks[i].pc = "idle"
    /\ LET tokens == Refill(fn.tokens, fn.elapsed, fn.rate) IN
       IF tokens >= TokenScale
       THEN fn' = Returned1([fn EXCEPT !.tokens = Debit(tokens), !.elapsed = 0,
                                       !.tasks[i] = RlTask("returned", 0, FALSE)])
       ELSE \E total_wait \in TotalWaits(tokens, fn.rate, fn.jitter) :
               fn' = [fn EXCEPT !.tokens = tokens, !.elapsed = 0,
                                !.tasks[i] = RlTask("sleeping", total_wait, TRUE)]
    /\ UNCHANGED <<storeVars, retryVars, procVars, dlVars>>

\* wait(), its second block under the lock, once the sleep is over: the
\* timestamp is set and one token is debited.
RlWoke(i) ==
    /\ fn.op = "wait"
    /\ fn.tasks[i].pc = "sleeping" /\ fn.tasks[i].sleep = 0
    /\ fn' = Returned1([fn EXCEPT !.tokens = Debit(fn.tokens), !.elapsed = 0,
                                  !.tasks[i] = RlTask("returned", 0, TRUE)])
    /\ UNCHANGED <<storeVars, retryVars, procVars, dlVars>>

\* The task is cancelled in asyncio.sleep: wait() ends without the debit.
RlCancelled(i) ==
    /\ fn.op = "wait"
    /\ fn.tasks[i].pc = "sleeping"
    /\ fn' = [fn EXCEPT !.tasks[i] = RlTask("idle", 0, FALSE)]
    /\ UNCHANGED <<storeVars, retryVars, procVars, dlVars>>

\* The task makes its request and comes back for the next one.
RlNextRequest(i) ==
    /\ fn.op = "wait"
    /\ fn.tasks[i].pc = "returned"
    /\ fn' = [fn EXCEPT !.tasks[i] = RlTask("idle", 0, FALSE)]
    /\ UNCHANGED <<storeVars, retryVars, procVars, dlVars>>

NextRate ==
    \/ RlTick
    \/ \E i \in RlTasks : RlWait(i)
    \/ \E i \in RlTasks : RlWoke(i)
    \/ \E i \in RlTasks : RlCancelled(i)
    \/ \E i \in RlTasks : RlNextRequest(i)

SpecRate == InitRate /\ [][NextRate]_vars

\* C28: in every state of a TokenBucketRateLimiter, whatever the interleaving
\* of the wait() calls of its tasks, 0 <= tokens <= capacity.
TokenBounds ==
    fn.op = "wait" => (0 <= fn.tokens /\ fn.tokens <= capacity)

\* Two tasks slept on an empty bucket; one has woken and its debit was clamped
\* at zero while the other still sleeps.
TokenBoundsWitness ==
    /\ fn.op = "wait"
    /\ fn.tokens = 0
    /\ \E i, j \in RlTasks :
        /\ fn.tasks[i].pc = "returned" /\ fn.tasks[i].slept
        /\ fn.tasks[j].pc = "sleeping"

\* wait() returned at most as often as the tokens the bucket held at the start
\* and those made since, while the counts are below their caps.
PacedFromStart ==
    (fn.op = "wait" /\ fn.jitter = 0 /\ fn.now < MaxTime /\ fn.returns < MaxReturns)
        => fn.returns * TokenScale <= capacity + fn.rate * fn.now

\* Whenever two tasks have come out of a sleep, each begun on a bucket holding
\* less than one token, more than one token's worth of time has passed.
OneTokenOneSleeper ==
    (fn.op = "wait" /\ fn.jitter = 0 /\ fn.now < MaxTime /\ fn.returns < MaxReturns)
        => (Cardinality({i \in RlTasks : fn.tasks[i].pc = "returned" /\ fn.tasks[i].slept}) >= 2
                => TokenScale < fn.rate * fn.now)

\* C32: with jitter 0, whatever the number of tasks sharing the limiter, the
\* wait() calls that return within T ticks are at most capacity + rate * T
\* (here over the time since the limiter was built), and tasks that found the
\* bucket empty while another slept are not let through on the same token.
PacingBound == PacedFromStart /\ OneTokenOneSleeper

\* ---------------------------------------------------------------- SpecMedia
\* One call of _dl_fetch_media_resources.
\*   fn.resources     the url of each resource ("" when it has none)
\*   fn.force_update, fn.concurrent  the arguments
\*   fn.files         the files of media_dir, each named after its url
\*   fn.w             per resource, its worker: pc ("new", "fetching",
\*                    "returned", "raised"), whether the file existed when it
\*                    looked, whether it fetched, and how the fetch ended
\*   fn.pc            the call: "gathering", "returned", "raised"

MaxResources == 3

MediaUrls == {"u", "v"}

MediaWorker(pc, existed, fetched, outcome) ==
    [pc |-> pc, existed |-> existed, fetched |-> fetched, outcome |-> outcome]

\* The workers that hold the semaphore.
MediaInside(w) == {i \in DOMAIN w : w[i].pc = "fetching"}

MediaFinished(w) == \A i \in DOMAIN w : w[i].pc \in {"returned", "raised"}

\* An asyncio.gather without return_exceptions: the exception of a worker is
\* raised to the caller as soon as the worker ends.
GatherFirstException(w) ==
    IF \E i \in DOMAIN w : w[i].pc = "raised" THEN [done |-> TRUE, raised |-> TRUE]
    ELSE [done |-> MediaFinished(w), raised |-> FALSE]

\* asyncio.gather(*tasks, return_exceptions=True): done when every worker has
\* ended; the exceptions are results.
Gather(w) == [done |-> MediaFinished(w), raised |-> FALSE]

InitMedia ==
    /\ IdleStore
    /\ IdleRetry
    /\ IdleProc
    /\ IdleDl
    /\ \E n \in 0..MaxResources :
        \E resources \in [1..n -> MediaUrls \cup {""}], files \in SUBSET MediaUrls,
           force_update \in BOOLEAN, concurrent \in 1..2 :
            fn = [op |-> "media", pc |-> "gathering", resources |-> resources,
                  force_update |-> force_update, concurrent |-> concurrent,
                  files |-> files,
                  w |-> [i \in 1..n |-> MediaWorker("new", FALSE, FALSE, "none")]]

\* The workers start in the order of the list, and the semaphore wakes its
\* waiters in that order.
MediaTurn(i) ==
    /\ fn.op = "media"
    /\ i \in DOMAIN fn.w
    /\ fn.w[i].pc = "new"
    /\ \A j \in 1..(i - 1) : fn.w[j].pc # "new"

\* worker: a resource without url is left out.
MediaNoUrl(i) ==
    /\ MediaTurn(i)
    /\ fn.resources[i] = ""
    /\ fn' = [fn EXCEPT !.w[i] = MediaWorker("returned", FALSE, FALSE, "none")]
    /\ UNCHANGED <<storeVars, retryVars, procVars, dlVars>>

\* worker takes the semaphore; _dl_fetch_binary_file returns when the file is
\* there and force_update is not set, and calls fetch_binary otherwise.
MediaEnters(i) ==
    /\ MediaTurn(i)
    /\ fn.resources[i] # ""
    /\ Cardinality(MediaInside(fn.w)) < fn.concurrent
    /\ LET existed == fn.resources[i] \in fn.files IN
       fn' = [fn EXCEPT !.w[i] =
                 IF existed /\ ~fn.force_update
                 THEN MediaWorker("returned", TRUE, FALSE, "none")
                 ELSE MediaWorker("fetching", existed, TRUE, "none")]
    /\ UNCHANGED <<storeVars, retryVars, procVars, dlVars>>

\* fetch_binary returns and the file is written.
MediaSaved(i) ==
    /\ fn.op = "media"
    /\ i \in DOMAIN fn.w
    /\ fn.w[i].pc = "fetching"
    /\ fn' = [fn EXCEPT !.files = fn.files \cup {fn.resources[i]},
                        !.w[i] = [fn.w[i] EXCEPT !.pc = "returned", !.outcome = "saved"]]
    /\ UNCHANGED <<storeVars, retryVars, procVars, dlVars>>

\* fetch_binary raises: the exception is logged and the worker returns.
MediaFetchFails(i) ==
    /\ fn.op = "media"
    /\ i \in DOMAIN fn.w
    /\ fn.w[i].pc = "fetching"
    /\ fn' = [fn EXCEPT !.w[i] = [fn.w[i] EXCEPT !.pc = "returned",
                                                 !.outcome = "fetch failed"]]
    /\ UNCHANGED <<storeVars, retryVars, procVars, dlVars>>

\* mkdir or write_bytes raises: the exception leaves the worker.
MediaWriteFails(i) ==
    /\ fn.op = "media"
    /\ i \in DOMAIN fn.w
    /\ fn.w[i].pc = "fetching"
    /\ fn' = [fn EXCEPT !.w[i] = [fn.w[i] EXCEPT !.pc = "raised",
                                                 !.outcome = "write failed"]]
    /\ UNCHANGED <<storeVars, retryVars, procVars, dlVars>>

\* gather is over (at once when there are no tasks).
MediaGathered ==
    /\ fn.op = "media"
    /\ fn.pc = "gathering"
    /\ Gather(fn.w).done
    /\ fn' = [fn EXCEPT !.pc = IF Gather(fn.w).raised THEN "raised" ELSE "returned"]
    /\ UNCHANGED <<storeVars, retryVars, procVars, dlVars>>

NextMedia ==
    \/ \E i \in 1..MaxResources : MediaNoUrl(i)
    \/ \E i \in 1..MaxResources : MediaEnters(i)
    \/ \E i \in 1..MaxResources : MediaSaved(i)
    \/ \E i \in 1..MaxResources : MediaFetchFails(i)
    \/ \E i \in 1..MaxResources : MediaWriteFails(i)
    \/ MediaGathered

SpecMedia == InitMedia /\ [][NextMedia]_vars

\* C29: a batch of media resources never ends by raising, whatever fetches or
\* writes fail; while it runs, a worker that has not ended is fetching or can
\* start; when it has returned, every resource with a url was fetched, except
\* those whose file was there when the worker looked and force_update was not
\* set, which were not fetched; and the file of every resource whose fetch
\* and write went through is in the directory.
MediaIsolation ==
    fn.op = "media"
        => /\ fn.pc # "raised"
           /\ (fn.pc = "gathering" /\ ~MediaFinished(fn.w))
                => \/ MediaInside(fn.w) # {}
                   \/ \E i \in DOMAIN fn.w :
                        fn.w[i].pc = "new" /\ \A j \in 1..(i - 1) : fn.w[j].pc # "new"
           /\ fn.pc = "returned"
                => \A i \in DOMAIN fn.w :
                        fn.resources[i] # ""
                            => fn.w[i].fetched = ~(fn.w[i].existed /\ ~fn.force_update)
           /\ \A i \in DOMAIN fn.w :
                /\ (fn.w[i].existed /\ ~fn.force_update) => ~fn.w[i].fetched
                /\ fn.w[i].outcome = "saved" => fn.resources[i] \in fn.files

\* The batch has returned: the fetch of its first resource failed, the second
\* was fetched and written, and the third was left alone because its file was
\* there.
MediaIsolationWitness ==
    /\ fn.op = "media" /\ fn.pc = "returned"
    /\ Len(fn.resources) = 3
    /\ fn.w[1].outcome = "fetch failed"
    /\ fn.w[2].outcome = "saved" /\ ~fn.w[2].existed
    /\ fn.w[3].existed /\ ~fn.w[3].fetched
    /\ ~fn.force_update

\* ---------------------------------------------------------------- SpecStage
\* One _pc_run_stage call of stage s1 reading the raw store: any chapter list
\* of up to MaxChapIds ids (repeated ids included, as _extract_chapter_ids
\* keeps them), any rows of the input file, and as rows of the output file
\* what earlier runs of the stage made of input chapters.

MaxChapIds == 3

StageIds == {"a", "b"}

StagePconf == ProcessorConfig("s1", FALSE, [level |-> 1])

ChapIdLists == UNION {[1..n -> StageIds] : n \in 0..MaxChapIds}

StageInRows ==
    UNION {[S -> {Row(ChapterDict("", RawContent(v), ""), need) :
                    v \in {1, 2}, need \in BOOLEAN}] : S \in SUBSET StageIds}

StageOutRows(in_rows) ==
    UNION {[S -> {Row(process_chapter("s1", StagePconf.options,
                                      ChapterDict("", RawContent(v), "")), need) :
                    v \in {1, 2}, need \in BOOLEAN}] : S \in SUBSET DOMAIN in_rows}

NoStageRun ==
    [reusable |-> {}, missing_input |-> {}, to_process |-> {}, read |-> {},
     transformed |-> {}, total |-> 0, progress |-> <<>>, raised |-> FALSE,
     out |-> EmptyMap]

InitStage ==
    /\ IdleStore
    /\ IdleRetry
    /\ IdleProc
    /\ IdleDl
    /\ \E chap_ids \in ChapIdLists, in_rows \in StageInRows,
          incremental \in BOOLEAN, ui \in BOOLEAN :
        \E out_rows \in StageOutRows(in_rows) :
            fn = [op |-> "_pc_run_stage", pc |-> "called", chap_ids |-> chap_ids,
                  in_rows |-> in_rows, out_rows |-> out_rows,
                  incremental |-> incremental, ui |-> ui, fail_at |-> 0,
                  res |-> NoStageRun]

\* The stage runs: list(to_process) comes in any order, and process_chapter
\* raises at any element of it or at none.
StageReturns ==
    /\ fn.op = "_pc_run_stage" /\ fn.pc = "called"
    /\ LET first == _pc_run_stage(fn.chap_ids, StagePconf, fn.incremental, fn.in_rows,
                                  fn.out_rows, fn.ui, <<>>, 0) IN
       \E list \in Orders(first.to_process), fail_at \in 0..Cardinality(first.to_process) :
            fn' = [fn EXCEPT !.pc = "returned", !.fail_at = fail_at,
                             !.res = _pc_run_stage(fn.chap_ids, StagePconf,
                                                   fn.incremental, fn.in_rows,
                                                   fn.out_rows, fn.ui, list, fail_at)]
    /\ UNCHANGED <<storeVars, retryVars, procVars, dlVars>>

NextStage == StageReturns

SpecStage == InitStage /\ [][NextStage]_vars

\* The stage run has ended.
StageRan == fn.op = "_pc_run_stage" /\ fn.pc = "returned"

\* C33: every row a stage run writes to its output store carries the
\* need_refetch flag the input store holds for that id, and when the run goes
\* through every chapter it processed is written so: no chapter that is clean
\* upstream is marked stale, none that is stale upstream is marked clean.
StalenessInherited ==
    StageRan
        => /\ \A cid \in DOMAIN fn.res.out :
                (cid \notin DOMAIN fn.out_rows \/ fn.res.out[cid] # fn.out_rows[cid])
                    => /\ cid \in fn.res.transformed
                       /\ fn.res.out[cid].need_refetch = fn.in_rows[cid].need_refetch
           /\ ~fn.res.raised
                => \A cid \in fn.res.transformed :
                        /\ cid \in DOMAIN fn.res.out
                        /\ fn.res.out[cid].need_refetch = fn.in_rows[cid].need_refetch

\* A run processed a stale and b clean, over output rows that had the flags
\* the other way round.
StalenessInheritedWitness ==
    /\ StageRan /\ ~fn.res.raised
    /\ fn.res.transformed = {"a", "b"}
    /\ fn.in_rows["a"].need_refetch /\ ~fn.in_rows["b"].need_refetch
    /\ DOMAIN fn.out_rows = {"a", "b"}
    /\ ~fn.out_rows["a"].need_refetch /\ fn.out_rows["b"].need_refetch
    /\ fn.res.out["a"].need_refetch /\ ~fn.res.out["b"].need_refetch

\* C36: in an incremental stage run the reusable set is exactly the ids of
\* the output store that are clean in the input store and requested; the
\* transform is called for none of them, none of them is read from the input
\* store, and the row of each in the output store is left as it was. A run
\* that is not incremental reuses nothing.
ReusableUntouched ==
    StageRan
        => LET instore == connect(NewStorage(fn.in_rows))
               outstore == connect(NewStorage(fn.out_rows)) IN
           /\ fn.incremental
                => fn.res.reusable = (existing_ids(outstore) \cap clean_ids(instore))
                                        \cap Range(fn.chap_ids)
           /\ ~fn.incremental => fn.res.reusable = {}
           /\ \A cid \in fn.res.reusable :
                /\ cid \notin fn.res.transformed
                /\ cid \notin fn.res.read
                /\ cid \in DOMAIN fn.res.out
                /\ fn.res.out[cid] = fn.out_rows[cid]

\* An incremental run reused a and processed b.
ReusableUntouchedWitness ==
    /\ StageRan /\ fn.incremental /\ ~fn.res.raised
    /\ fn.res.reusable = {"a"}
    /\ fn.res.transformed = {"b"}
    /\ fn.res.out["a"] = fn.out_rows["a"]

\* C39: in a stage run the reusable, missing-input and to-process ids are
\* pairwise disjoint and together are the requested chapters; no
\* on_stage_progress call reports done > total; and the last call of a run
\* that went through with at least one requested chapter reports
\* done = total.
StageProgressAddsUp ==
    (StageRan /\ fn.ui)
        => LET r == fn.res IN
           /\ r.reusable \cap r.missing_input = {}
           /\ r.reusable \cap r.to_process = {}
           /\ r.missing_input \cap r.to_process = {}
           /\ (r.reusable \cup r.missing_input) \cup r.to_process = Range(fn.chap_ids)
           /\ \A k \in 1..Len(r.progress) : r.progress[k] <= r.total
           /\ (~r.raised /\ Len(fn.chap_ids) > 0)
                => /\ Len(r.progress) > 0
                   /\ r.progress[Len(r.progress)] = r.total

\* --------------------------------------------------------------- SpecRepair
\* The _dl_fix_chapter_ids pass of a download_book call, on books of up to
\* MaxChapters chapters whose chapterId is a, c or missing, the raw store
\* empty or holding chapter a with or without a next_cid.
MaxChapters == 3

RepairInfos == UNION {[1..n -> {"a", "c", ""}] : n \in 1..MaxChapters}

RepairStores ==
    {EmptyMap,
     [i \in {"a"} |-> Row(Fetched("a"), FALSE)],
     [i \in {"a"} |-> Row(ChapterDict("a", 1, ""), FALSE)]}

InitRepair ==
    /\ IdleRetry
    /\ IdleProc
    /\ IdleFn
    /\ csRet = [op |-> "init", raised |-> FALSE, value |-> "none"]
    /\ \E info \in RepairInfos, store0 \in RepairStores :
        /\ dl = NewDownload(info, {}, 1, 1, TRUE, store0)
        /\ cs = connect(NewStorage(store0))

NextRepair == DlFixChapterId

SpecRepair == InitRepair /\ [][NextRepair]_vars

\* The pass handles chapter k of book_info in this step.
RepairStep(k) == dl.main = "repair" /\ dl.rk = k /\ dl'.rk = k + 1

\* extra["next_cid"] of chapter id as the pass reads it in this step: from the
\* row of the store, or from what get_chapter returns.
BackReference(id) ==
    IF id \in DOMAIN cs.rows THEN cs.rows[id].next ELSE NextCid(id)

\* C35: the pass changes no declared chapterId; the id it gives a chapter whose
\* chapterId is missing is the next_cid of the chapter just before it in
\* book_info; when there is no previous id, the fetch fails or there is no
\* next_cid, the gap stays and the pass goes on; every chapter fetched for the
\* repair is a committed row of the store.
IdRepair ==
    [][\A k \in 1..Len(dl.info) :
          RepairStep(k)
            => /\ Len(dl'.info) = Len(dl.info)
               /\ \A j \in 1..Len(dl.info) :
                     (j # k \/ dl.info[j] # "") => dl'.info[j] = dl.info[j]
               /\ (dl.info[k] = "" /\ dl'.info[k] # "")
                    => /\ k > 1
                       /\ IF k > 1
                          THEN /\ dl.info[k - 1] # ""
                               /\ dl'.info[k] = BackReference(dl.info[k - 1])
                          ELSE FALSE
               /\ (dl.info[k] = "" /\ (dl.prev = "" \/ dl'.fetchFailed # dl.fetchFailed
                                        \/ BackReference(dl.prev) = ""))
                    => dl'.info[k] = "" /\ dl'.main = "repair"
               /\ dl'.repaired \subseteq DOMAIN cs'.disk]_vars

====
